---- MODULE Spec2Model ----
(***************************************************************************)
(* Yamanaka sync server: the vault store, the client registry, the         *)
(* missed-event spool, the broadcaster, the push / pull / initial-sync     *)
(* handlers and the event-stream handler, as a state machine.              *)
(*                                                                         *)
(* Strings of the program (paths, device ids, file names, base64 text) are *)
(* sequences of one-character strings, so that filepath.Join/Clean,        *)
(* strings.Contains, Sprintf("%d"), ParseInt and base64 are computed as    *)
(* the code computes them.  A cleaned absolute path is the sequence of its *)
(* components; the root "/" is << >>.                                      *)
(***************************************************************************)
EXTENDS Integers, Sequences, FiniteSets, TLC

(***************************************************************************)
(* Strings                                                                 *)
(***************************************************************************)
DigitChars == <<"0", "1", "2", "3", "4", "5", "6", "7", "8", "9">>

Base64Alphabet ==
    <<"A","B","C","D","E","F","G","H","I","J","K","L","M","N","O","P",
      "Q","R","S","T","U","V","W","X","Y","Z","a","b","c","d","e","f",
      "g","h","i","j","k","l","m","n","o","p","q","r","s","t","u","v",
      "w","x","y","z","0","1","2","3","4","5","6","7","8","9","+","/">>

\* "/data": main() takes filepath.Abs("./data") as the vault path and the data dir.
VaultPath == <<"/", "d", "a", "t", "a">>

GitName == <<".", "g", "i", "t">>

JsonSuffix == <<".", "j", "s", "o", "n">>

ClientsFileName == <<"c", "l", "i", "e", "n", "t", "s">> \o JsonSuffix

missedEventsDir == <<"m", "i", "s", "s", "e", "d", "_", "e", "v", "e", "n", "t", "s">>

\* strings.Contains(s, sub)
StrContains(s, sub) ==
    \E i \in 1..(Len(s) - Len(sub) + 1) : SubSeq(s, i, i + Len(sub) - 1) = sub

\* strings.HasSuffix / strings.TrimSuffix
HasSuffix(s, suf) ==
    /\ Len(s) >= Len(suf)
    /\ SubSeq(s, Len(s) - Len(suf) + 1, Len(s)) = suf

TrimSuffix(s, suf) ==
    IF HasSuffix(s, suf) THEN SubSeq(s, 1, Len(s) - Len(suf)) ELSE s

\* fmt.Sprintf("%d", n) for n >= 0
RECURSIVE FormatInt(_)
FormatInt(n) ==
    IF n < 10 THEN <<DigitChars[n + 1]>>
    ELSE FormatInt(n \div 10) \o <<DigitChars[(n % 10) + 1]>>

IsDigit(c) == \E d \in 1..10 : DigitChars[d] = c

DigitValue(c) == (CHOOSE d \in 1..10 : DigitChars[d] = c) - 1

\* strconv.ParseInt(s, 10, 64) with the error dropped (ts, _ := ...): the value,
\* or 0 when s is not a decimal number.  Only unsigned numerals occur here.
RECURSIVE ParseDigits(_, _)
ParseDigits(s, acc) ==
    IF s = << >> THEN acc
    ELSE ParseDigits(Tail(s), acc * 10 + DigitValue(Head(s)))

ParseInt(s) ==
    IF s # << >> /\ \A i \in 1..Len(s) : IsDigit(s[i])
    THEN ParseDigits(s, 0)
    ELSE 0

(***************************************************************************)
(* Paths: filepath.Join, filepath.Clean, filepath.Dir, filepath.Rel        *)
(***************************************************************************)
\* The components of s between separators (empty components kept).
RECURSIVE SplitPath(_, _, _)
SplitPath(s, cur, acc) ==
    IF s = << >> THEN Append(acc, cur)
    ELSE IF Head(s) = "/" THEN SplitPath(Tail(s), << >>, Append(acc, cur))
    ELSE SplitPath(Tail(s), Append(cur, Head(s)), acc)

\* filepath.Clean of a rooted path given by its components: empty and "."
\* components are dropped, ".." removes the component before it, and ".." at
\* the root is dropped.
RECURSIVE CleanRooted(_, _)
CleanRooted(comps, stack) ==
    IF comps = << >> THEN stack
    ELSE LET c == Head(comps) IN
         IF c = << >> \/ c = <<".">> THEN CleanRooted(Tail(comps), stack)
         ELSE IF c = <<".", ".">>
         THEN CleanRooted(Tail(comps),
                          IF stack = << >> THEN stack
                          ELSE SubSeq(stack, 1, Len(stack) - 1))
         ELSE CleanRooted(Tail(comps), Append(stack, c))

RECURSIVE JoinComps(_)
JoinComps(elems) ==
    IF elems = << >> THEN << >>
    ELSE SplitPath(Head(elems), << >>, << >>) \o JoinComps(Tail(elems))

\* filepath.Join(elems...) where elems[1] is absolute: the cleaned path.
Join(elems) == CleanRooted(JoinComps(elems), << >>)

\* filepath.Dir of a cleaned absolute path ("/" is its own parent).
Dir(path) == IF path = << >> THEN << >> ELSE SubSeq(path, 1, Len(path) - 1)

IsPrefix(p, q) == Len(p) <= Len(q) /\ SubSeq(q, 1, Len(p)) = p

VaultRoot == Join(<<VaultPath>>)

\* filepath.ToSlash(filepath.Rel(vaultPath, path)) for a path under the vault.
RECURSIVE ToSlash(_)
ToSlash(comps) ==
    IF comps = << >> THEN << >>
    ELSE IF Len(comps) = 1 THEN comps[1]
    ELSE comps[1] \o <<"/">> \o ToSlash(Tail(comps))

Rel(base, path) == ToSlash(SubSeq(path, Len(base) + 1, Len(path)))

\* strings.Contains(path, ".git") on the full path string: no separator is part
\* of ".git", so it is a substring of the path iff of one of its components.
ContainsGit(path) == \E i \in 1..Len(path) : StrContains(path[i], GitName)

(***************************************************************************)
(* base64.StdEncoding (padded, not strict)                                 *)
(***************************************************************************)
IsB64Char(c) == \E i \in 1..64 : Base64Alphabet[i] = c

B64Value(c) == (CHOOSE i \in 1..64 : Base64Alphabet[i] = c) - 1

\* The decoder skips '\r' and '\n' wherever they stand.
RECURSIVE StripNewlines(_)
StripNewlines(s) ==
    IF s = << >> THEN << >>
    ELSE IF Head(s) = "\n" \/ Head(s) = "\r" THEN StripNewlines(Tail(s))
    ELSE <<Head(s)>> \o StripNewlines(Tail(s))

\* One quantum of four characters; "=" padding is accepted in the last quantum
\* only, and the bits left over before the padding are not checked.
DecodeQuantum(q, last) ==
    LET v(i) == B64Value(q[i])
        b1 == v(1) * 4 + (v(2) \div 16)
        b2 == (v(2) % 16) * 16 + (v(3) \div 4)
        b3 == (v(3) % 4) * 64 + v(4)
    IN  IF \A i \in 1..4 : IsB64Char(q[i])
        THEN [ok |-> TRUE, bytes |-> <<b1, b2, b3>>]
        ELSE IF last /\ IsB64Char(q[1]) /\ IsB64Char(q[2]) /\ IsB64Char(q[3]) /\ q[4] = "="
        THEN [ok |-> TRUE, bytes |-> <<b1, b2>>]
        ELSE IF last /\ IsB64Char(q[1]) /\ IsB64Char(q[2]) /\ q[3] = "=" /\ q[4] = "="
        THEN [ok |-> TRUE, bytes |-> <<b1>>]
        ELSE [ok |-> FALSE, bytes |-> << >>]

RECURSIVE DecodeQuanta(_)
DecodeQuanta(s) ==
    IF s = << >> THEN [ok |-> TRUE, bytes |-> << >>]
    ELSE IF Len(s) < 4 THEN [ok |-> FALSE, bytes |-> << >>]
    ELSE LET q == DecodeQuantum(SubSeq(s, 1, 4), Len(s) = 4)
             r == DecodeQuanta(SubSeq(s, 5, Len(s)))
         IN  IF q.ok /\ r.ok THEN [ok |-> TRUE, bytes |-> q.bytes \o r.bytes]
             ELSE [ok |-> FALSE, bytes |-> << >>]

\* base64.StdEncoding.DecodeString
DecodeString(s) == DecodeQuanta(StripNewlines(s))

\* base64.StdEncoding.EncodeToString
RECURSIVE EncodeToString(_)
EncodeToString(b) ==
    LET ch(n) == Base64Alphabet[n + 1] IN
    IF b = << >> THEN << >>
    ELSE IF Len(b) = 1
    THEN <<ch(b[1] \div 4), ch((b[1] % 4) * 16), "=", "=">>
    ELSE IF Len(b) = 2
    THEN <<ch(b[1] \div 4), ch((b[1] % 4) * 16 + (b[2] \div 16)),
           ch((b[2] % 16) * 4), "=">>
    ELSE <<ch(b[1] \div 4), ch((b[1] % 4) * 16 + (b[2] \div 16)),
           ch((b[2] % 16) * 4 + (b[3] \div 64)), ch(b[3] % 64)>>
         \o EncodeToString(SubSeq(b, 4, Len(b)))

(***************************************************************************)
(* Events and their JSON                                                   *)
(*                                                                         *)
(* A JSON object text is the sequence of its members [k, v] in the order   *)
(* they are written; every value here is a string (a sequence of strings). *)
(***************************************************************************)
SSEEventFileUpdated == "file_updated"

SSEEventFileDeleted == "file_deleted"

SSEEventFullSyncRequired == "full_sync_required"

\* events.FileEventData / events.FullSyncEventData (SenderDeviceID is never set)
FileEventData(path, content) ==
    [type |-> "FileEventData", Path |-> path, Content |-> content,
     SenderDeviceID |-> << >>]

FullSyncEventData(message) ==
    [type |-> "FullSyncEventData", Message |-> message, SenderDeviceID |-> << >>]

\* json.Marshal of an event struct: the tagged fields in declaration order,
\* content left out when empty (omitempty), SenderDeviceID never (json:"-").
MarshalEvent(ev) ==
    IF ev.type = "FileEventData"
    THEN <<[k |-> "path", v |-> ev.Path]>>
         \o (IF ev.Content = << >> THEN << >>
             ELSE <<[k |-> "content", v |-> ev.Content]>>)
    ELSE <<[k |-> "message", v |-> ev.Message]>>

\* json.Unmarshal of an object text into interface{}: a map[string]interface{}.
UnmarshalMap(pairs) ==
    [key \in {pairs[i].k : i \in 1..Len(pairs)} |->
        pairs[CHOOSE i \in 1..Len(pairs) :
                 /\ pairs[i].k = key
                 /\ \A j \in (i + 1)..Len(pairs) : pairs[j].k # key].v]

\* json.Marshal of a map writes the keys sorted.
SortedKeys == <<"content", "message", "path">>

RECURSIVE MarshalMapFrom(_, _)
MarshalMapFrom(m, keys) ==
    IF keys = << >> THEN << >>
    ELSE (IF Head(keys) \in DOMAIN m
          THEN <<[k |-> Head(keys), v |-> m[Head(keys)]]>> ELSE << >>)
         \o MarshalMapFrom(m, Tail(keys))

MarshalMap(m) == MarshalMapFrom(m, SortedKeys)

\* fmt.Fprintf(w, "event: %s\ndata: %s\n\n", name, string(jsonData)): data is
\* << >> for the empty string and <<object>> for one JSON object text.
Frame(name, data) == [event |-> name, data |-> data]

HeartbeatFrame == [event |-> ":heartbeat", data |-> << >>]

(***************************************************************************)
(* The filesystem: a function from cleaned absolute paths to nodes         *)
(***************************************************************************)
DirNode == [kind |-> "dir"]

FileBytes(b) == [kind |-> "bytes", bytes |-> b]

FileJson(pairs) == [kind |-> "json", pairs |-> pairs]

FileClients(ids) == [kind |-> "clients", ids |-> ids]

FsPut(f, p, node) == [q \in DOMAIN f \cup {p} |-> IF q = p THEN node ELSE f[q]]

FsDrop(f, gone) == [q \in DOMAIN f \ gone |-> f[q]]

IsDir(f, p) == p \in DOMAIN f /\ f[p].kind = "dir"

IsFile(f, p) == p \in DOMAIN f /\ f[p].kind # "dir"

Children(f, p) == {q \in DOMAIN f : Len(q) = Len(p) + 1 /\ IsPrefix(p, q)}

Under(f, p) == {q \in DOMAIN f : IsPrefix(p, q)}

\* os.MkdirAll: nil for an existing directory, an error for an existing file,
\* otherwise the parents first and then the directory itself.
RECURSIVE MkdirAll(_, _)
MkdirAll(f, p) ==
    IF p \in DOMAIN f THEN [err |-> f[p].kind # "dir", fs |-> f]
    ELSE LET r == MkdirAll(f, Dir(p)) IN
         IF r.err THEN r ELSE [err |-> FALSE, fs |-> FsPut(r.fs, p, DirNode)]

\* os.WriteFile / os.Create: create or truncate; fails on a directory and when
\* the parent is not a directory.
OsWriteFile(f, p, node) ==
    IF IsDir(f, p) \/ ~IsDir(f, Dir(p)) THEN [err |-> TRUE, fs |-> f]
    ELSE [err |-> FALSE, fs |-> FsPut(f, p, node)]

\* os.Remove: unlink a file or remove an empty directory.
OsRemove(f, p) ==
    IF p \notin DOMAIN f \/ p = << >> \/ (IsDir(f, p) /\ Children(f, p) # {})
    THEN [err |-> TRUE, fs |-> f]
    ELSE [err |-> FALSE, fs |-> FsDrop(f, {p})]

\* os.RemoveAll: the path and everything below it; a missing path is no error.
OsRemoveAll(f, p) == FsDrop(f, Under(f, p))

(***************************************************************************)
(* The vault store (vault/files.go).  Every operation holds                *)
(* state.FileSystemMutex from its first to its last statement, so each is  *)
(* one step on the filesystem.                                             *)
(***************************************************************************)
\* vault.WriteFile(vaultPath, relPath, content)
WriteFile(f, vaultPath, relPath, content) ==
    LET fullPath == Join(<<vaultPath, relPath>>)
        m == MkdirAll(f, Dir(fullPath))
    IN  IF m.err THEN m ELSE OsWriteFile(m.fs, fullPath, FileBytes(content))

\* vault.DeleteFile(vaultPath, relPath)
DeleteFile(f, vaultPath, relPath) == OsRemove(f, Join(<<vaultPath, relPath>>))

\* The content field of a pulled file: base64 of the file's bytes.  The bytes
\* of a JSON file written by the server itself are not spelled out in the
\* model; their encoding is one opaque text.
FileContentBase64(node) ==
    IF node.kind = "bytes" THEN EncodeToString(node.bytes)
    ELSE <<"base64(", node.kind, ")">>

\* vault.GetAllFiles(vaultPath): every regular file under the vault whose full
\* path does not contain ".git", as File{Path, Content}.  The order of the walk
\* is not modelled: the result is the set of the files.
GetAllFiles(f, vaultPath) ==
    LET root == Join(<<vaultPath>>) IN
    IF root \notin DOMAIN f THEN [err |-> TRUE, files |-> {}]
    ELSE [err |-> FALSE,
          files |-> {[Path |-> Rel(root, p), Content |-> FileContentBase64(f[p])] :
                       p \in {q \in Under(f, root) : IsFile(f, q) /\ ~ContainsGit(q)}}]

\* vault.CleanDir(vaultPath): os.RemoveAll of every top-level entry whose name
\* is not ".git".
CleanDir(f, vaultPath) ==
    LET root == Join(<<vaultPath>>)
        gone == UNION {Under(f, e) : e \in {c \in Children(f, root) : c[Len(c)] # GitName}}
    IN  IF ~IsDir(f, root) THEN [err |-> TRUE, fs |-> f]
        ELSE [err |-> FALSE, fs |-> FsDrop(f, gone)]

\* The archive of an initial sync: [gzip |-> whether the gzip header is valid,
\* entries |-> the tar headers in order, each [Name, Typeflag, data]].
TypeDir == "dir"

TypeReg == "reg"

TypeSymlink == "symlink"

\* The loop of vault.ExtractTarGz over the tar entries: the first failing entry
\* ends it with an error and leaves what was extracted before it.
RECURSIVE ExtractEntries(_, _, _)
ExtractEntries(f, entries, dst) ==
    IF entries = << >> THEN [err |-> FALSE, fs |-> f]
    ELSE LET header == Head(entries)
             target == Join(<<dst, header.Name>>)
         IN  IF header.Typeflag = TypeDir
             THEN LET m == MkdirAll(f, target) IN
                  IF m.err THEN m ELSE ExtractEntries(m.fs, Tail(entries), dst)
             ELSE IF header.Typeflag = TypeReg
             THEN LET m == MkdirAll(f, Dir(target)) IN
                  IF m.err THEN m
                  ELSE LET w == OsWriteFile(m.fs, target, FileBytes(header.data)) IN
                       IF w.err THEN w ELSE ExtractEntries(w.fs, Tail(entries), dst)
             ELSE [err |-> TRUE, fs |-> f]

\* vault.ExtractTarGz(gzipStream, dst)
ExtractTarGz(f, gzipStream, dst) ==
    IF ~gzipStream.gzip THEN [err |-> TRUE, fs |-> f]
    ELSE ExtractEntries(f, gzipStream.entries, dst)

(***************************************************************************)
(* The missed-event spool (state/missed.go)                                *)
(***************************************************************************)
ClientDir(dataDir, clientID) == Join(<<dataDir, missedEventsDir, clientID>>)

\* state.StoreMissedEvent(dataDir, clientID, eventData), with the value t that
\* time.Now().UnixNano() returns: the file <t>.json is created or overwritten.
StoreMissedEvent(f, dataDir, clientID, eventData, t) ==
    LET clientDir == ClientDir(dataDir, clientID)
        m == MkdirAll(f, clientDir)
        filePath == Append(clientDir, FormatInt(t) \o JsonSuffix)
    IN  IF m.err THEN f
        ELSE OsWriteFile(m.fs, filePath, FileJson(MarshalEvent(eventData))).fs

\* The sort of RetrieveAndClearMissedEvents: by the number in the file name.
FileTimestamp(p) == ParseInt(TrimSuffix(p[Len(p)], JsonSuffix))

RECURSIVE SortByTimestamp(_)
SortByTimestamp(S) ==
    IF S = {} THEN << >>
    ELSE LET first == CHOOSE p \in S : \A q \in S : FileTimestamp(p) <= FileTimestamp(q)
         IN  <<first>> \o SortByTimestamp(S \ {first})

\* Reading and unmarshalling the listed files; a file that cannot be read (a
\* directory) or is no JSON text is skipped.  File bytes written by a push are
\* taken to be no JSON text.
RECURSIVE ReadEvents(_, _)
ReadEvents(f, files) ==
    IF files = << >> THEN << >>
    ELSE (IF IsFile(f, Head(files)) /\ f[Head(files)].kind = "json"
          THEN <<UnmarshalMap(f[Head(files)].pairs)>> ELSE << >>)
         \o ReadEvents(f, Tail(files))

\* state.RetrieveAndClearMissedEvents up to, and without, its os.RemoveAll:
\* found tells whether the function goes on to remove the directory.
ReadMissedEvents(f, dataDir, clientID) ==
    LET clientDir == ClientDir(dataDir, clientID) IN
    IF clientDir \notin DOMAIN f \/ ~IsDir(f, clientDir)
    THEN [found |-> FALSE, events |-> << >>]
    ELSE [found |-> TRUE,
          events |-> ReadEvents(f, SortByTimestamp(Children(f, clientDir)))]

\* The os.RemoveAll(clientDir) that ends RetrieveAndClearMissedEvents.
ClearMissedEvents(f, dataDir, clientID) == OsRemoveAll(f, ClientDir(dataDir, clientID))

(***************************************************************************)
(* The frames of the event stream (EventsHandler)                          *)
(***************************************************************************)
\* The threshold of the catch-up: more missed events than this give one
\* full_sync_required frame instead of the replay.
ResyncThreshold == 10

MissedMessage(n) ==
    <<"You have ">> \o FormatInt(n) \o <<" missed updates. A full sync is required.">>

InitialSyncMessage(deviceID) ==
    <<"Vault was reset and populated by an initial sync from device ">> \o deviceID
    \o <<". Other clients should perform a full pull if they need the latest state.">>

\* The frame written for the whole backlog when it is over the threshold.
ResyncFrame(n) ==
    Frame(SSEEventFullSyncRequired, <<MarshalEvent(FullSyncEventData(MissedMessage(n)))>>)

\* The frame written for one replayed event, a map read back from the spool.
ReplayFrame(m) ==
    LET pathOk == "path" \in DOMAIN m
        contentOk == "content" \in DOMAIN m
        eventName ==
            IF pathOk
            THEN (IF contentOk /\ m["content"] # << >>
                  THEN SSEEventFileUpdated ELSE SSEEventFileDeleted)
            ELSE IF "message" \in DOMAIN m THEN SSEEventFullSyncRequired
            ELSE ""
    IN  Frame(eventName, <<MarshalMap(m)>>)

\* The frame written for one event taken from the channel.  In the branch of
\* a FileEventData with empty content jsonData is never assigned, and the data
\* line is empty.
LiveFrame(ev) ==
    IF ev.type = "FileEventData"
    THEN (IF ev.Content = << >> THEN Frame(SSEEventFileDeleted, << >>)
          ELSE Frame(SSEEventFileUpdated, <<MarshalEvent(ev)>>))
    ELSE Frame(SSEEventFullSyncRequired, <<MarshalEvent(ev)>>)

(***************************************************************************)
(* State                                                                   *)
(***************************************************************************)
VARIABLES
    fs,             \* the filesystem: cleaned absolute path -> node
    now,            \* the value time.Now().UnixNano() returned last
    clients,        \* Manager.clients: device id -> channel (named by its connection)
    trackedClients, \* Manager.trackedClients: the set of tracked device ids
    saves,          \* the copies handed to `go SaveTrackedClients` and not yet written
    conn,           \* the EventsHandler calls: connection -> [pc, dev, missed, ...]
    closed,         \* the channels close() was called on
    rx,             \* device id -> what was written to its event streams, in order
    push,           \* the PushHandler calls: request -> [pc, dev, req, i]
    initial,        \* the InitialSyncHandler call: [pc, dev, archive]
    pulled,         \* the response of the last PullHandler call
    commits,        \* the history store: the commits of vault.CommitChanges
    bcasts,         \* history: the Broadcast calls, in order
    mutations,      \* history: the push items processed, in order
    idleSince,      \* history: device id -> Len(bcasts) when it last became inactive
    isSyncing,      \* plugin: SyncManager.isSyncing
    filesToUpdate,  \* plugin: YamanakaPlugin.filesToUpdate
    filesToDelete,  \* plugin: YamanakaPlugin.filesToDelete
    isApplyingServerChange, \* plugin: YamanakaPlugin.isApplyingServerChange
    debounceTimer,  \* plugin: whether a timeout of triggerDebouncedPush is pending
    localFiles,     \* plugin: the paths of the files of the Obsidian vault
    sync,           \* plugin: the pull / push / initialSync calls: name -> [pc, ...]
    handlers,       \* plugin: the calls of the event handlers: call -> [pc, event, path]
    journal         \* history of the plugin: the numbers of requests sent, of calls
                    \* refused, of edits and of calls, and the last edit

\* The state of the server and the state of the plugin of one device.
serverVars == <<fs, now, clients, trackedClients, saves, conn, closed, rx, push,
                initial, pulled, commits, bcasts, mutations, idleSince>>

pluginVars == <<isSyncing, filesToUpdate, filesToDelete, isApplyingServerChange,
                debounceTimer, localFiles, sync, handlers, journal>>

vars == <<serverVars, pluginVars>>

(***************************************************************************)
(* Bounds and inputs                                                       *)
(***************************************************************************)
MaxConns == 2

MaxPushes == 1

MaxHeartbeats == 1

DeviceA == <<"A">>

DeviceB == <<"B">>

Devices == {DeviceA, DeviceB}

Conns == 1..MaxConns

Pushes == 1..MaxPushes

NoEvent == [type |-> "none"]

\* What identifies an event in the histories: its path, content and message.
NoText == <<"-">>

EventKey(ev) ==
    IF ev.type = "FileEventData"
    THEN [path |-> ev.Path, content |-> ev.Content, message |-> NoText]
    ELSE [path |-> NoText, content |-> << >>, message |-> ev.Message]

MapKey(m) ==
    [path |-> IF "path" \in DOMAIN m THEN m["path"] ELSE NoText,
     content |-> IF "content" \in DOMAIN m THEN m["content"] ELSE << >>,
     message |-> IF "message" \in DOMAIN m THEN m["message"] ELSE NoText]

RECURSIVE MapKeys(_)
MapKeys(ms) == IF ms = << >> THEN << >> ELSE <<MapKey(Head(ms))>> \o MapKeys(Tail(ms))

(***************************************************************************)
(* The client registry (state.Manager)                                     *)
(***************************************************************************)
\* Manager.IsClientActive
IsClientActive(clientID) == clientID \in DOMAIN clients

\* Manager.GetAllTrackedClients
GetAllTrackedClients == trackedClients

\* state.LoadTrackedClients(dataDir): the ids of clients.json, or the empty set
\* when the file is missing or is no JSON object of the tracked clients.
LoadTrackedClients(f, dataDir) ==
    LET path == Join(<<dataDir, ClientsFileName>>) IN
    IF IsFile(f, path) /\ f[path].kind = "clients" THEN f[path].ids ELSE {}

\* state.SaveTrackedClients(dataDir, clientIDs): ensureDataDir, then the write
\* of clients.json, whose error is only logged.
SaveTrackedClients(f, dataDir, clientIDs) ==
    LET m == MkdirAll(f, Join(<<dataDir>>)) IN
    OsWriteFile(m.fs, Join(<<dataDir, ClientsFileName>>), FileClients(clientIDs)).fs

\* A faulty AddClient that tracks the registered device in place of the
\* devices tracked before: the properties of the tracked set have to tell it
\* from AddClient.
AddClientTracksOnly(deviceID, ch) ==
    /\ clients' = [d \in DOMAIN clients \cup {deviceID} |->
                      IF d = deviceID THEN ch ELSE clients[d]]
    /\ IF deviceID \notin trackedClients
       THEN /\ trackedClients' = {deviceID}
            /\ saves' = saves \cup {{deviceID}}
       ELSE UNCHANGED <<pluginVars, trackedClients, saves>>

\* A faulty AddClient that registers the channel and tracks nothing: the
\* properties that tie the active devices to the tracked ones have to tell it
\* from AddClient.
AddClientUntracked(deviceID, ch) ==
    /\ clients' = [d \in DOMAIN clients \cup {deviceID} |->
                      IF d = deviceID THEN ch ELSE clients[d]]
    /\ UNCHANGED <<pluginVars, trackedClients, saves>>

\* Manager.AddClient(deviceID, ch): the entry is set (an entry of the same id
\* is replaced), and a first-time id is tracked and a save of the copy started.
AddClient(deviceID, ch) ==
    /\ clients' = [d \in DOMAIN clients \cup {deviceID} |->
                      IF d = deviceID THEN ch ELSE clients[d]]
    /\ IF deviceID \notin trackedClients
       THEN /\ trackedClients' = trackedClients \cup {deviceID}
            /\ saves' = saves \cup {trackedClients \cup {deviceID}}
       ELSE UNCHANGED <<pluginVars, trackedClients, saves>>

\* A faulty RemoveClient that closes the channel and leaves it in the active
\* map: the properties of the channels have to tell it from RemoveClient.
RemoveClientKeepsEntry(deviceID) ==
    IF deviceID \in DOMAIN clients
    THEN /\ closed' = closed \cup {clients[deviceID]}
         /\ UNCHANGED clients
    ELSE UNCHANGED <<pluginVars, closed, clients>>

\* Manager.RemoveClient(deviceID): the channel found under the id is closed
\* and the entry deleted.
RemoveClient(deviceID) ==
    IF deviceID \in DOMAIN clients
    THEN /\ closed' = closed \cup {clients[deviceID]}
         /\ clients' = [d \in DOMAIN clients \ {deviceID} |-> clients[d]]
    ELSE UNCHANGED <<pluginVars, closed, clients>>

(***************************************************************************)
(* The broadcaster (Manager.Broadcast)                                     *)
(***************************************************************************)
\* The channels are unbuffered (make(chan interface{})): the non-blocking send
\* succeeds exactly when the handler that made the channel is blocked in the
\* select of its relay loop.
ReceiverWaiting(ch) == conn[ch].pc = "select"

\* The ids the send succeeds for, among the ids the loop visits.
SentTo(targets) ==
    {id \in targets : IsClientActive(id) /\ ReceiverWaiting(clients[id])}

RECURSIVE StoreForAll(_, _, _, _)
StoreForAll(f, ids, eventData, t) ==
    IF ids = {} THEN f
    ELSE LET id == CHOOSE x \in ids : TRUE IN
         StoreForAll(StoreMissedEvent(f, VaultPath, id, eventData, t),
                     ids \ {id}, eventData, t)

\* The loop of Broadcast over the ids `targets`: the event is handed to the
\* waiting handler of an active id and stored as a missed event for every
\* other id.  The registry is read-locked for the whole call.  time.Now() is
\* read by StoreMissedEvent: it has not gone back since the last call, and
\* may return the same value again.
BroadcastTo(targets, senderDeviceID, eventData, origin) ==
    LET sent == SentTo(targets) IN
    /\ now' \in {now, now + 1}
    /\ conn' = [c \in Conns |->
                  IF \E id \in sent : clients[id] = c
                  THEN [conn[c] EXCEPT !.pc = "got", !.msg = eventData]
                  ELSE conn[c]]
    /\ fs' = StoreForAll(fs, targets \ sent, eventData, now')
    /\ bcasts' = Append(bcasts,
                        [sender |-> senderDeviceID, event |-> eventData,
                         key |-> EventKey(eventData),
                         targets |-> targets, sent |-> sent,
                         chans |-> clients, tracked |-> trackedClients,
                         relaying |-> {c \in Conns : conn[c].pc \in {"select", "got"}},
                         at |-> now', origin |-> origin])

\* A faulty Broadcast that does not skip the sender: the properties of the
\* broadcaster have to tell it from Broadcast.
BroadcastToAll(senderDeviceID, eventData, origin) ==
    BroadcastTo(GetAllTrackedClients, senderDeviceID, eventData, origin)

\* Manager.Broadcast(senderDeviceID, eventData); origin is history only.
Broadcast(senderDeviceID, eventData, origin) ==
    BroadcastTo({id \in GetAllTrackedClients : id # senderDeviceID},
                senderDeviceID, eventData, origin)

(***************************************************************************)
(* The event stream (ApiHandler.EventsHandler)                             *)
(*                                                                         *)
(* pc of a connection: "free" (no request yet), "registered" (AddClient    *)
(* done), "draining" (the spool is read, not yet removed), "catchup" (the  *)
(* spool is retrieved, nothing written yet), "select" (blocked in the      *)
(* select of the relay loop), "got" (an event is taken from the channel,   *)
(* its frame not yet written), "closed" (returned, RemoveClient done).     *)
(*                                                                         *)
(* A handler whose channel was closed by the RemoveClient of another       *)
(* connection of the same device receives nil from it, logs and goes on    *)
(* selecting: it writes nothing and stays in "select".  The os.RemoveAll   *)
(* of the spool directory is one step.                                     *)
(***************************************************************************)
FreeConn == [pc |-> "free", dev |-> << >>, missed |-> << >>, msg |-> NoEvent,
             offline |-> FALSE, from |-> 0, upto |-> 0, opened |-> 0]

Written(c, frame, via, keys) ==
    [conn |-> c, frame |-> frame, via |-> via, keys |-> keys]

RxAppend(d, entries) == rx' = [rx EXCEPT ![d] = rx[d] \o entries]

\* The frames of connection c, in the order they were written.
Stream(c) == SelectSeq(rx[conn[c].dev], LAMBDA e : e.conn = c)

\* device_id is checked, the channel made and registered (AddClient), and
\* RemoveClient deferred.
EventsConnect(c, deviceID) ==
    /\ conn[c].pc = "free"
    /\ \A b \in Conns : b < c => conn[b].pc # "free"
    /\ deviceID # << >>
    /\ AddClient(deviceID, c)
    /\ conn' = [conn EXCEPT ![c] = [FreeConn EXCEPT
                   !.pc = "registered", !.dev = deviceID,
                   !.offline = ~IsClientActive(deviceID),
                   !.from = idleSince[deviceID], !.upto = Len(bcasts),
                   !.opened = Len(rx[deviceID])]]
    /\ UNCHANGED <<pluginVars, fs, now, closed, rx, push, initial, pulled, commits, bcasts,
                   mutations, idleSince>>

\* RetrieveAndClearMissedEvents, up to its os.RemoveAll.
EventsReadMissed(c) ==
    /\ conn[c].pc = "registered"
    /\ LET r == ReadMissedEvents(fs, VaultPath, conn[c].dev) IN
       conn' = [conn EXCEPT ![c].pc = IF r.found THEN "draining" ELSE "catchup",
                            ![c].missed = r.events]
    /\ UNCHANGED <<pluginVars, fs, now, clients, trackedClients, saves, closed, rx, push,
                   initial, pulled, commits, bcasts, mutations, idleSince>>

\* The os.RemoveAll of RetrieveAndClearMissedEvents.
EventsClearMissed(c) ==
    /\ conn[c].pc = "draining"
    /\ fs' = ClearMissedEvents(fs, VaultPath, conn[c].dev)
    /\ conn' = [conn EXCEPT ![c].pc = "catchup"]
    /\ UNCHANGED <<pluginVars, now, clients, trackedClients, saves, closed, rx, push,
                   initial, pulled, commits, bcasts, mutations, idleSince>>

RECURSIVE ReplayEntries(_, _)
ReplayEntries(c, ms) ==
    IF ms = << >> THEN << >>
    ELSE <<Written(c, ReplayFrame(Head(ms)), "replay", <<MapKey(Head(ms))>>)>>
         \o ReplayEntries(c, Tail(ms))

\* A faulty catch-up that replays the backlog after the full_sync_required
\* frame: the properties of the threshold have to tell it from CatchUpEntries.
CatchUpEntriesReplayed(c, missedEvents) ==
    IF Len(missedEvents) > ResyncThreshold
    THEN <<Written(c, ResyncFrame(Len(missedEvents)), "resync", MapKeys(missedEvents))>>
         \o ReplayEntries(c, missedEvents)
    ELSE ReplayEntries(c, missedEvents)

\* What the catch-up writes for the retrieved events.
CatchUpEntries(c, missedEvents) ==
    IF Len(missedEvents) > ResyncThreshold
    THEN <<Written(c, ResyncFrame(Len(missedEvents)), "resync", MapKeys(missedEvents))>>
    ELSE ReplayEntries(c, missedEvents)

\* A faulty catch-up that enters the relay loop without writing the retrieved
\* events: the properties of the catch-up have to tell it from EventsCatchUp.
EventsCatchUpSkipped(c) ==
    /\ conn[c].pc = "catchup"
    /\ conn' = [conn EXCEPT ![c].pc = "select", ![c].missed = << >>]
    /\ UNCHANGED <<pluginVars, fs, now, clients, trackedClients, saves, closed, rx, push,
                   initial, pulled, commits, bcasts, mutations, idleSince>>

\* The catch-up: one full_sync_required frame for a backlog over the
\* threshold, otherwise the replay of every missed event; then the relay loop.
EventsCatchUp(c) ==
    /\ conn[c].pc = "catchup"
    /\ RxAppend(conn[c].dev, CatchUpEntries(c, conn[c].missed))
    /\ conn' = [conn EXCEPT ![c].pc = "select", ![c].missed = << >>]
    /\ UNCHANGED <<pluginVars, fs, now, clients, trackedClients, saves, closed, push,
                   initial, pulled, commits, bcasts, mutations, idleSince>>

\* case eventMsg := <-eventChan: the frame of the event is written and flushed.
EventsRelay(c) ==
    /\ conn[c].pc = "got"
    /\ RxAppend(conn[c].dev,
                <<Written(c, LiveFrame(conn[c].msg), "live", <<EventKey(conn[c].msg)>>)>>)
    /\ conn' = [conn EXCEPT ![c].pc = "select", ![c].msg = NoEvent]
    /\ UNCHANGED <<pluginVars, fs, now, clients, trackedClients, saves, closed, push,
                   initial, pulled, commits, bcasts, mutations, idleSince>>

\* case <-heartbeatTicker.C: the comment frame is written and flushed.
EventsHeartbeat(c) ==
    /\ conn[c].pc = "select"
    /\ Len(SelectSeq(Stream(c), LAMBDA e : e.via = "heartbeat")) < MaxHeartbeats
    /\ RxAppend(conn[c].dev, <<Written(c, HeartbeatFrame, "heartbeat", << >>)>>)
    /\ UNCHANGED <<pluginVars, fs, now, clients, trackedClients, saves, conn, closed, push,
                   initial, pulled, commits, bcasts, mutations, idleSince>>

\* case <-ctx.Done(): the handler returns and the deferred RemoveClient runs.
EventsDisconnect(c) ==
    /\ conn[c].pc = "select"
    /\ RemoveClient(conn[c].dev)
    /\ conn' = [conn EXCEPT ![c].pc = "closed"]
    /\ idleSince' = IF IsClientActive(conn[c].dev)
                    THEN [idleSince EXCEPT ![conn[c].dev] = Len(bcasts)]
                    ELSE idleSince
    /\ UNCHANGED <<pluginVars, fs, now, trackedClients, saves, rx, push, initial, pulled,
                   commits, bcasts, mutations>>

\* The goroutine started by AddClient writes its copy of the tracked set.
SaveTracked(ids) ==
    /\ ids \in saves
    /\ fs' = SaveTrackedClients(fs, VaultPath, ids)
    /\ saves' = saves \ {ids}
    /\ UNCHANGED <<pluginVars, now, clients, trackedClients, conn, closed, rx, push,
                   initial, pulled, commits, bcasts, mutations, idleSince>>

(***************************************************************************)
(* The history store (vault.CommitChanges)                                 *)
(***************************************************************************)
GitHeadPath == Join(<<VaultPath, GitName, <<"H", "E", "A", "D">> >>)

GitHeadNode == [kind |-> "git"]

\* What `git add -A` stages: every file of the work tree outside .git.
WorkTree(f, vaultPath) ==
    LET root == Join(<<vaultPath>>)
        tracked == {p \in Under(f, root) :
                       IsFile(f, p) /\ ~IsPrefix(Append(root, GitName), p)}
    IN  [p \in tracked |-> f[p]]

LastTree(cs) == IF cs = << >> THEN << >> ELSE cs[Len(cs)].tree

\* vault.CommitChanges(vaultPath, message): an error when git cannot run in
\* the vault, no commit when `git status --porcelain` is empty, else a commit.
CommitChanges(f, cs, vaultPath, message) ==
    LET tree == WorkTree(f, vaultPath) IN
    IF ~(GitHeadPath \in DOMAIN f /\ f[GitHeadPath] = GitHeadNode)
    THEN [err |-> TRUE, commits |-> cs]
    ELSE IF (cs = << >> /\ DOMAIN tree = {}) \/ (cs # << >> /\ tree = LastTree(cs))
    THEN [err |-> FALSE, commits |-> cs]
    ELSE [err |-> FALSE, commits |-> Append(cs, [message |-> message, tree |-> tree])]

(***************************************************************************)
(* ApiHandler.PushHandler                                                  *)
(*                                                                         *)
(* pc of a push: "free", "delete" (before DeleteFile of FilesToDelete[i]), *)
(* "delBcast" (deleted, before its Broadcast), "update" (before the decode *)
(* and WriteFile of FilesToUpdate[i]), "updBcast" (written, before its     *)
(* Broadcast), "commit" (before CommitChanges), "done" (200 answered).     *)
(***************************************************************************)
FreePush == [pc |-> "free", dev |-> << >>,
             req |-> [FilesToUpdate |-> << >>, FilesToDelete |-> << >>], i |-> 0]

\* Where the handler stands before item i of the delete loop / the update loop.
AtDelete(r, i) ==
    IF i <= Len(r.req.FilesToDelete) THEN [r EXCEPT !.pc = "delete", !.i = i]
    ELSE IF Len(r.req.FilesToUpdate) > 0 THEN [r EXCEPT !.pc = "update", !.i = 1]
    ELSE [r EXCEPT !.pc = "commit", !.i = 0]

AtUpdate(r, i) ==
    IF i <= Len(r.req.FilesToUpdate) THEN [r EXCEPT !.pc = "update", !.i = i]
    ELSE [r EXCEPT !.pc = "commit", !.i = 0]

Processed(p, op, path, content, ok) ==
    [push |-> p, item |-> push[p].i, op |-> op, path |-> path,
     content |-> content, ok |-> ok]

PushOrigin(p, op) == [kind |-> "push", push |-> p, item |-> push[p].i, op |-> op]

\* A faulty start of a push that goes to the updates at once: the properties
\* of the order of a push have to tell it from PushStart.
PushStartAtUpdates(p, deviceID, req) ==
    /\ push[p].pc = "free"
    /\ \A q \in Pushes : q < p => push[q].pc # "free"
    /\ push' = [push EXCEPT ![p] = AtUpdate([FreePush EXCEPT !.dev = deviceID, !.req = req], 1)]
    /\ UNCHANGED <<pluginVars, fs, now, clients, trackedClients, saves, conn, closed, rx,
                   initial, pulled, commits, bcasts, mutations, idleSince>>

\* The request body is decoded.
PushStart(p, deviceID, req) ==
    /\ push[p].pc = "free"
    /\ \A q \in Pushes : q < p => push[q].pc # "free"
    /\ push' = [push EXCEPT ![p] = AtDelete([FreePush EXCEPT !.dev = deviceID, !.req = req], 1)]
    /\ UNCHANGED <<pluginVars, fs, now, clients, trackedClients, saves, conn, closed, rx,
                   initial, pulled, commits, bcasts, mutations, idleSince>>

\* vault.DeleteFile of one path of FilesToDelete; an error skips the broadcast.
PushDelete(p) ==
    /\ push[p].pc = "delete"
    /\ LET path == push[p].req.FilesToDelete[push[p].i]
           r == DeleteFile(fs, VaultPath, path)
       IN  /\ fs' = r.fs
           /\ mutations' = Append(mutations, Processed(p, "delete", path, << >>, ~r.err))
           /\ push' = [push EXCEPT ![p] =
                         IF r.err THEN AtDelete(push[p], push[p].i + 1)
                         ELSE [push[p] EXCEPT !.pc = "delBcast"]]
    /\ UNCHANGED <<pluginVars, now, clients, trackedClients, saves, conn, closed, rx,
                   initial, pulled, commits, bcasts, idleSince>>

\* The Broadcast of the delete event: a FileEventData with the path only.
PushDeleteBroadcast(p) ==
    /\ push[p].pc = "delBcast"
    /\ Broadcast(push[p].dev,
                 FileEventData(push[p].req.FilesToDelete[push[p].i], << >>),
                 PushOrigin(p, "delete"))
    /\ push' = [push EXCEPT ![p] = AtDelete(push[p], push[p].i + 1)]
    /\ UNCHANGED <<pluginVars, clients, trackedClients, saves, closed, rx, initial,
                   pulled, commits, mutations, idleSince>>

\* A faulty update step that goes on to the broadcast whatever the decode and
\* the write returned: the properties of the push have to tell it from
\* PushUpdate.
PushUpdateUnchecked(p) ==
    /\ push[p].pc = "update"
    /\ LET file == push[p].req.FilesToUpdate[push[p].i]
           dec == DecodeString(file.Content)
           w == IF dec.ok THEN WriteFile(fs, VaultPath, file.Path, dec.bytes)
                ELSE [err |-> TRUE, fs |-> fs]
       IN  /\ fs' = w.fs
           /\ mutations' = Append(mutations,
                                  Processed(p, "update", file.Path, file.Content, ~w.err))
           /\ push' = [push EXCEPT ![p].pc = "updBcast"]
    /\ UNCHANGED <<pluginVars, now, clients, trackedClients, saves, conn, closed, rx,
                   initial, pulled, commits, bcasts, idleSince>>

\* A faulty update step that gives the batch up at the first item that fails:
\* the properties of a failing item have to tell it from PushUpdate.
PushUpdateAborting(p) ==
    /\ push[p].pc = "update"
    /\ LET file == push[p].req.FilesToUpdate[push[p].i]
           dec == DecodeString(file.Content)
           w == IF dec.ok THEN WriteFile(fs, VaultPath, file.Path, dec.bytes)
                ELSE [err |-> TRUE, fs |-> fs]
       IN  /\ fs' = w.fs
           /\ mutations' = Append(mutations,
                                  Processed(p, "update", file.Path, file.Content, ~w.err))
           /\ push' = [push EXCEPT ![p] =
                         IF w.err THEN [push[p] EXCEPT !.pc = "commit", !.i = 0]
                         ELSE [push[p] EXCEPT !.pc = "updBcast"]]
    /\ UNCHANGED <<pluginVars, now, clients, trackedClients, saves, conn, closed, rx,
                   initial, pulled, commits, bcasts, idleSince>>

\* The base64 decode and vault.WriteFile of one file of FilesToUpdate; an
\* error of either skips the broadcast.
PushUpdate(p) ==
    /\ push[p].pc = "update"
    /\ LET file == push[p].req.FilesToUpdate[push[p].i]
           dec == DecodeString(file.Content)
           w == IF dec.ok THEN WriteFile(fs, VaultPath, file.Path, dec.bytes)
                ELSE [err |-> TRUE, fs |-> fs]
       IN  /\ fs' = w.fs
           /\ mutations' = Append(mutations,
                                  Processed(p, "update", file.Path, file.Content, ~w.err))
           /\ push' = [push EXCEPT ![p] =
                         IF w.err THEN AtUpdate(push[p], push[p].i + 1)
                         ELSE [push[p] EXCEPT !.pc = "updBcast"]]
    /\ UNCHANGED <<pluginVars, now, clients, trackedClients, saves, conn, closed, rx,
                   initial, pulled, commits, bcasts, idleSince>>

\* The Broadcast of the update event: the path and the base64 as received.
PushUpdateBroadcast(p) ==
    /\ push[p].pc = "updBcast"
    /\ LET file == push[p].req.FilesToUpdate[push[p].i] IN
       Broadcast(push[p].dev, FileEventData(file.Path, file.Content),
                 PushOrigin(p, "update"))
    /\ push' = [push EXCEPT ![p] = AtUpdate(push[p], push[p].i + 1)]
    /\ UNCHANGED <<pluginVars, clients, trackedClients, saves, closed, rx, initial,
                   pulled, commits, mutations, idleSince>>

PushCommitMessage(deviceID) == <<"Client push from device ">> \o deviceID

\* vault.CommitChanges (its error is only logged), then the 200 response.
PushCommit(p) ==
    /\ push[p].pc = "commit"
    /\ commits' = CommitChanges(fs, commits, VaultPath,
                                PushCommitMessage(push[p].dev)).commits
    /\ push' = [push EXCEPT ![p].pc = "done"]
    /\ UNCHANGED <<pluginVars, fs, now, clients, trackedClients, saves, conn, closed, rx,
                   initial, pulled, bcasts, mutations, idleSince>>

(***************************************************************************)
(* ApiHandler.PullHandler                                                  *)
(***************************************************************************)
PushesIdle == \A p \in Pushes : push[p].pc \in {"free", "done"}

\* vault.GetAllFiles, answered as the files (or 500).  seen and idle are
\* history: how many push items were processed before, and whether no push
\* was under way.  walking counts the pull handlers that are inside
\* GetAllFiles, between its RLock() and its RUnlock().
PullHandler ==
    /\ LET r == GetAllFiles(fs, VaultPath) IN
       pulled' = [status |-> IF r.err THEN 500 ELSE 200, files |-> r.files,
                  seen |-> Len(mutations),
                  idle |-> PushesIdle /\ initial.pc \in {"free", "done", "failed"},
                  walking |-> pulled.walking]
    /\ UNCHANGED <<pluginVars, fs, now, clients, trackedClients, saves, conn, closed, rx,
                   push, initial, commits, bcasts, mutations, idleSince>>

(***************************************************************************)
(* ApiHandler.InitialSyncHandler                                           *)
(*                                                                         *)
(* pc: "free", "clean" (before CleanDir), "extract" (before ExtractTarGz), *)
(* "bcast" (before Broadcast), "done" (200), "failed" (500).               *)
(***************************************************************************)
InitialSyncStart(deviceID, archive) ==
    /\ initial.pc = "free"
    /\ initial' = [pc |-> "clean", dev |-> deviceID, archive |-> archive]
    /\ UNCHANGED <<pluginVars, fs, now, clients, trackedClients, saves, conn, closed, rx,
                   push, pulled, commits, bcasts, mutations, idleSince>>

InitialSyncClean ==
    /\ initial.pc = "clean"
    /\ LET r == CleanDir(fs, VaultPath) IN
       /\ fs' = r.fs
       /\ initial' = [initial EXCEPT !.pc = IF r.err THEN "failed" ELSE "extract"]
    /\ UNCHANGED <<pluginVars, now, clients, trackedClients, saves, conn, closed, rx,
                   push, pulled, commits, bcasts, mutations, idleSince>>

\* A faulty extraction step that goes on to the broadcast whatever
\* ExtractTarGz returned: the properties of a failing initial sync have to
\* tell it from InitialSyncExtract.
InitialSyncExtractUnchecked ==
    /\ initial.pc = "extract"
    /\ LET r == ExtractTarGz(fs, initial.archive, VaultPath) IN
       /\ fs' = r.fs
       /\ initial' = [initial EXCEPT !.pc = "bcast"]
    /\ UNCHANGED <<pluginVars, now, clients, trackedClients, saves, conn, closed, rx,
                   push, pulled, commits, bcasts, mutations, idleSince>>

InitialSyncExtract ==
    /\ initial.pc = "extract"
    /\ LET r == ExtractTarGz(fs, initial.archive, VaultPath) IN
       /\ fs' = r.fs
       /\ initial' = [initial EXCEPT !.pc = IF r.err THEN "failed" ELSE "bcast"]
    /\ UNCHANGED <<pluginVars, now, clients, trackedClients, saves, conn, closed, rx,
                   push, pulled, commits, bcasts, mutations, idleSince>>

\* The one Broadcast of a FullSyncEventData, then the 200 response.
\* A faulty last step that announces the first extracted file instead of the
\* replace: the properties of the initial sync have to tell it from
\* InitialSyncBroadcast.
InitialSyncBroadcastFiles ==
    /\ initial.pc = "bcast"
    /\ Broadcast(initial.dev,
                 FileEventData(initial.archive.entries[1].Name,
                               EncodeToString(initial.archive.entries[1].data)),
                 [kind |-> "initial", push |-> 0, item |-> 0, op |-> "replace"])
    /\ initial' = [initial EXCEPT !.pc = "done"]
    /\ UNCHANGED <<pluginVars, clients, trackedClients, saves, closed, rx, push,
                   pulled, commits, mutations, idleSince>>

\* The broadcast of the full_sync_required event, and the 200 response.
InitialSyncBroadcast ==
    /\ initial.pc = "bcast"
    /\ Broadcast(initial.dev, FullSyncEventData(InitialSyncMessage(initial.dev)),
                 [kind |-> "initial", push |-> 0, item |-> 0, op |-> "replace"])
    /\ initial' = [initial EXCEPT !.pc = "done"]
    /\ UNCHANGED <<pluginVars, clients, trackedClients, saves, closed, rx, push,
                   pulled, commits, mutations, idleSince>>

(***************************************************************************)
(* Inputs of the requests                                                  *)
(***************************************************************************)
PathA == <<"a", ".", "m", "d">>

PathB == <<"b", ".", "m", "d">>

ContentX == <<"e", "A", "=", "=">>

ContentY == <<"e", "Q", "=", "=">>

File(path, content) == [Path |-> path, Content |-> content]

PushRequest(updates, deletes) == [FilesToUpdate |-> updates, FilesToDelete |-> deletes]

PushRequests ==
    {PushRequest(<<File(PathA, ContentY), File(PathB, ContentX)>>, << >>),
     PushRequest(<<File(PathB, ContentY)>>, <<PathA>>),
     PushRequest(<<File(PathB, << >>)>>, << >>)}

\* Requests with items that fail (a path not there, text that is no base64)
\* and with paths that leave the vault or name what the server keeps in it.
PathC == <<"c", ".", "m", "d">>

PathOk == <<"o", "k", ".", "m", "d">>

PathEvil == <<".", ".", "/", "e", "v", "i", "l">>

PathGitHead == <<".", "g", "i", "t", "/", "H", "E", "A", "D">>

PathGitignore == <<".", "g", "i", "t", "i", "g", "n", "o", "r", "e">>

PathSpooled == <<"m", "i", "s", "s", "e", "d", "_", "e", "v", "e", "n", "t", "s",
                 "/", "B", "/", "7", ".", "j", "s", "o", "n">>

NoBase64 == <<"!", "!">>

\* A path below a.md, which is a file.
PathBelowFile == PathA \o <<"/", "x">>

VaultRequests ==
    {PushRequest(<<File(PathOk, ContentX), File(PathEvil, ContentY)>>, << >>),
     PushRequest(<<File(PathB, NoBase64), File(PathB, ContentY)>>, <<PathC, PathA>>),
     PushRequest(<<File(PathGitignore, ContentX)>>, <<ClientsFileName>>),
     PushRequest(<<File(PathGitHead, ContentX), File(PathSpooled, ContentY)>>, << >>),
     PushRequest(<<File(PathBelowFile, ContentX), File(PathA, ContentY)>>, <<GitName>>),
     PushRequest(<<File(PathA, ContentY)>>, <<PathA>>)}

TarEntry(name, typeflag, data) == [Name |-> name, Typeflag |-> typeflag, data |-> data]

Archive(ok, entries) == [gzip |-> ok, entries |-> entries]

Archives ==
    {Archive(TRUE, <<TarEntry(<<"x", "/", "y", ".", "m", "d">>, TypeReg, <<104, 105>>)>>),
     Archive(FALSE, << >>),
     Archive(TRUE, <<TarEntry(<<"x", "/", "y", ".", "m", "d">>, TypeReg, <<104, 105>>),
                     TarEntry(<<"l", "n", "k">>, TypeSymlink, << >>)>>),
     Archive(TRUE, <<TarEntry(PathGitHead, TypeReg, <<104, 105>>),
                     TarEntry(PathEvil, TypeReg, <<104, 105>>)>>)}

(***************************************************************************)
(* The server after main().  The vault directory is also the data          *)
(* directory: it holds the git repository, and after an earlier run the    *)
(* files pushed then and the clients.json written then.                    *)
(***************************************************************************)
EmptyVault ==
    [p \in {<< >>, VaultRoot, Append(VaultRoot, GitName), GitHeadPath} |->
        IF p = GitHeadPath THEN GitHeadNode ELSE DirNode]

\* The vault an earlier run left: a.md was pushed and device B had connected.
RestartedVault ==
    FsPut(FsPut(EmptyVault, Join(<<VaultPath, PathA>>), FileBytes(<<120>>)),
          Join(<<VaultPath, ClientsFileName>>), FileClients({DeviceB}))

\* The events an earlier run left in the spool of device B: k events of
\* pushes to old.md, stored at the times 1..k.
PathOld == <<"o", "l", "d", ".", "m", "d">>

RECURSIVE Backlog(_)
Backlog(k) ==
    IF k = 0 THEN RestartedVault
    ELSE StoreMissedEvent(Backlog(k - 1), VaultPath, DeviceB,
                          FileEventData(PathOld, IF k % 2 = 0 THEN ContentX ELSE ContentY), k)

MaxBacklog == 11

Backlogs == (MaxBacklog - 1)..MaxBacklog

(***************************************************************************)
(* The Obsidian plugin of one device (plugin/main.ts, sync/manager.ts)     *)
(*                                                                         *)
(* JavaScript runs one callback at a time: a step is the run of a callback *)
(* or of the continuation of an await, up to the next await on the vault   *)
(* or on the server.  An await on a promise that is already resolved       *)
(* (setSyncing) does not let another callback in.  The server is reachable *)
(* and answers every request.                                              *)
(*                                                                         *)
(* pc of a pull / push / initialSync call: "idle", "started" (setSyncing   *)
(* returned true, the request is not yet sent), "sent" (the request is     *)
(* sent, the response awaited), "applying" (pull: the response is applied  *)
(* to the vault, file by file).  pc of an event-handler call: "free",      *)
(* "applying" (the flag is set, the vault operation awaited), "done".      *)
(***************************************************************************)
MaxEdits == 2

MaxHandlers == 2

MaxCalls == 1

\* DEFAULT_SETTINGS.autoSync
autoSync == TRUE

PluginPaths == {PathA, PathB}

Handlers == 1..MaxHandlers

SyncNames == {"pull", "push", "initialSync"}

IdleCall == [pc |-> "idle", updates |-> {}, deletes |-> {}, files |-> {}, left |-> {}]

FreeHandler == [pc |-> "free", event |-> "none", path |-> << >>]

NoEdit == [event |-> "none", path |-> << >>, oldPath |-> << >>]

\* The plugin after onload, in a vault that holds a.md.
PluginLoaded ==
    /\ isSyncing = FALSE
    /\ filesToUpdate = {}
    /\ filesToDelete = {}
    /\ isApplyingServerChange = FALSE
    /\ debounceTimer = FALSE
    /\ localFiles = {PathA}
    /\ sync = [k \in SyncNames |-> IdleCall]
    /\ handlers = [h \in Handlers |-> FreeHandler]
    /\ journal = [requests |-> 0, refused |-> 0, edits |-> 0, calls |-> 0,
                  edit |-> NoEdit]

\* What a listener leaves: the two sets and whether a timeout is pending.
Pending(u, d, t) == [filesToUpdate |-> u, filesToDelete |-> d, debounceTimer |-> t]

\* triggerDebouncedPush(): whether a timeout is pending after the call.
triggerDebouncedPush == IF ~autoSync \/ isSyncing THEN debounceTimer ELSE TRUE

\* handleFileChange(path), after the listener has left the set d.
handleFileChange(path, d) ==
    IF isApplyingServerChange THEN Pending(filesToUpdate, d, debounceTimer)
    ELSE Pending(filesToUpdate \cup {path}, d, triggerDebouncedPush)

\* The listeners of registerVaultEvents for the vault event `event`.
registerVaultEvents(event, path, oldPath) ==
    IF isApplyingServerChange THEN Pending(filesToUpdate, filesToDelete, debounceTimer)
    ELSE IF event \in {"create", "modify"} THEN handleFileChange(path, filesToDelete)
    ELSE IF event = "delete"
    THEN Pending(filesToUpdate \ {path}, filesToDelete \cup {path}, triggerDebouncedPush)
    ELSE handleFileChange(path, filesToDelete \cup {oldPath})

Listened(r) ==
    /\ filesToUpdate' = r.filesToUpdate
    /\ filesToDelete' = r.filesToDelete
    /\ debounceTimer' = r.debounceTimer

\* The vault after the change `event`.
VaultAfter(event, path, oldPath) ==
    IF event = "create" THEN localFiles \cup {path}
    ELSE IF event = "delete" THEN localFiles \ {path}
    ELSE IF event = "rename" THEN (localFiles \ {oldPath}) \cup {path}
    ELSE localFiles

\* The user creates, modifies, deletes or renames a file: the vault fires the
\* event and the listener runs.
LocalEdit(event, path, oldPath) ==
    /\ journal.edits < MaxEdits
    /\ event \in {"create", "rename"} => path \notin localFiles
    /\ event \in {"modify", "delete"} => path \in localFiles
    /\ IF event = "rename" THEN oldPath \in localFiles ELSE oldPath = << >>
    /\ localFiles' = VaultAfter(event, path, oldPath)
    /\ Listened(registerVaultEvents(event, path, oldPath))
    /\ journal' = [journal EXCEPT !.edits = @ + 1,
                                  !.edit = [event |-> event, path |-> path,
                                            oldPath |-> oldPath]]
    /\ UNCHANGED <<serverVars, isSyncing, isApplyingServerChange, sync, handlers>>

\* The callback of the timeout of triggerDebouncedPush: push is called with the
\* two sets, and the sets are cleared when it has returned.  A call that
\* setSyncing refuses returns at once.
TimerFires ==
    /\ debounceTimer
    /\ debounceTimer' = FALSE
    /\ IF isSyncing
       THEN /\ filesToUpdate' = {}
            /\ filesToDelete' = {}
            /\ journal' = [journal EXCEPT !.refused = @ + 1]
            /\ UNCHANGED <<isSyncing, sync>>
       ELSE /\ isSyncing' = TRUE
            /\ sync' = [sync EXCEPT !["push"].pc = "started"]
            /\ UNCHANGED <<filesToUpdate, filesToDelete, journal>>
    /\ UNCHANGED <<serverVars, isApplyingServerChange, localFiles, handlers>>

\* The command yamanaka-manual-push with changes pending and no sync running.
ManualPush ==
    /\ journal.calls < MaxCalls
    /\ ~isSyncing
    /\ filesToUpdate \cup filesToDelete # {}
    /\ isSyncing' = TRUE
    /\ sync' = [sync EXCEPT !["push"].pc = "started"]
    /\ journal' = [journal EXCEPT !.calls = @ + 1]
    /\ UNCHANGED <<serverVars, filesToUpdate, filesToDelete, isApplyingServerChange,
                   debounceTimer, localFiles, handlers>>

\* SyncManager.push up to apiClient.push: the payload holds the paths of
\* filesToUpdate that are files of the vault, and the paths of filesToDelete.
PushSend ==
    /\ sync["push"].pc = "started"
    /\ LET updates == filesToUpdate \cap localFiles IN
       /\ sync' = [sync EXCEPT !["push"] = [IdleCall EXCEPT !.pc = "sent",
                                              !.updates = updates,
                                              !.deletes = filesToDelete]]
       /\ journal' = [journal EXCEPT !.requests = @ + 1]
    /\ UNCHANGED <<serverVars, isSyncing, filesToUpdate, filesToDelete,
                   isApplyingServerChange, debounceTimer, localFiles, handlers>>

\* The response of the push (or its error): finally setSyncing(false), and the
\* caller clears the two sets.
PushDone ==
    /\ sync["push"].pc = "sent"
    /\ isSyncing' = FALSE
    /\ filesToUpdate' = {}
    /\ filesToDelete' = {}
    /\ sync' = [sync EXCEPT !["push"] = IdleCall]
    /\ UNCHANGED <<serverVars, isApplyingServerChange, debounceTimer, localFiles,
                   handlers, journal>>

\* A faulty call of pull whose setSyncing does not look at isSyncing: the
\* properties of the sync flag have to tell it from PullCall.
PullCallUnguarded ==
    /\ journal.calls < MaxCalls
    /\ sync["pull"].pc = "idle"
    /\ isSyncing' = TRUE
    /\ sync' = [sync EXCEPT !["pull"].pc = "sent"]
    /\ journal' = [journal EXCEPT !.calls = @ + 1]
    /\ UNCHANGED <<serverVars, filesToUpdate, filesToDelete, isApplyingServerChange,
                   debounceTimer, localFiles, handlers>>

\* SyncManager.pull is called (handleFullSyncRequiredEvent, or the command
\* yamanaka-manual-pull): refused by setSyncing, or started up to
\* apiClient.pull.
PullCall ==
    /\ journal.calls < MaxCalls
    /\ IF isSyncing
       THEN /\ journal' = [journal EXCEPT !.calls = @ + 1, !.refused = @ + 1]
            /\ UNCHANGED <<isSyncing, sync>>
       ELSE /\ isSyncing' = TRUE
            /\ sync' = [sync EXCEPT !["pull"].pc = "sent"]
            /\ journal' = [journal EXCEPT !.calls = @ + 1]
    /\ UNCHANGED <<serverVars, filesToUpdate, filesToDelete, isApplyingServerChange,
                   debounceTimer, localFiles, handlers>>

\* The response of the pull lists the files `files`; the local files are
\* listed (vault.getFiles).
PullReceive(files) ==
    /\ sync["pull"].pc = "sent"
    /\ sync' = [sync EXCEPT !["pull"] = [IdleCall EXCEPT !.pc = "applying",
                                           !.files = files,
                                           !.left = localFiles \cup files]]
    /\ UNCHANGED <<serverVars, isSyncing, filesToUpdate, filesToDelete,
                   isApplyingServerChange, debounceTimer, localFiles, handlers,
                   journal>>

\* One vault operation of the pull: the delete of a local file that is not on
\* the server, and after the deletes the modify (when the content differs) or
\* the create of a file of the server.  The vault fires its event.
PullApply(path, differs) ==
    /\ sync["pull"].pc = "applying"
    /\ path \in sync["pull"].left
    /\ path \in sync["pull"].files => sync["pull"].left \subseteq sync["pull"].files
    /\ LET event == IF path \notin sync["pull"].files
                    THEN (IF path \in localFiles THEN "delete" ELSE "none")
                    ELSE IF path \notin localFiles THEN "create"
                    ELSE IF differs THEN "modify" ELSE "none"
       IN  /\ localFiles' = VaultAfter(event, path, << >>)
           /\ IF event = "none"
              THEN UNCHANGED <<filesToUpdate, filesToDelete, debounceTimer>>
              ELSE Listened(registerVaultEvents(event, path, << >>))
    /\ sync' = [sync EXCEPT !["pull"].left = @ \ {path}]
    /\ UNCHANGED <<serverVars, isSyncing, isApplyingServerChange, handlers, journal>>

\* The end of the pull (or its error): finally setSyncing(false).
PullDone ==
    /\ sync["pull"].pc = "applying"
    /\ sync["pull"].left = {}
    /\ isSyncing' = FALSE
    /\ sync' = [sync EXCEPT !["pull"] = IdleCall]
    /\ UNCHANGED <<serverVars, filesToUpdate, filesToDelete, isApplyingServerChange,
                   debounceTimer, localFiles, handlers, journal>>

\* SyncManager.initialSync is called: refused by setSyncing, or started up to
\* apiClient.initialSync.
InitialSyncCall ==
    /\ journal.calls < MaxCalls
    /\ IF isSyncing
       THEN /\ journal' = [journal EXCEPT !.calls = @ + 1, !.refused = @ + 1]
            /\ UNCHANGED <<isSyncing, sync>>
       ELSE /\ isSyncing' = TRUE
            /\ sync' = [sync EXCEPT !["initialSync"] =
                          [IdleCall EXCEPT !.pc = "sent", !.files = localFiles]]
            /\ journal' = [journal EXCEPT !.calls = @ + 1]
    /\ UNCHANGED <<serverVars, filesToUpdate, filesToDelete, isApplyingServerChange,
                   debounceTimer, localFiles, handlers>>

\* The response of the initial sync (or its error): finally setSyncing(false).
InitialSyncDone ==
    /\ sync["initialSync"].pc = "sent"
    /\ isSyncing' = FALSE
    /\ sync' = [sync EXCEPT !["initialSync"] = IdleCall]
    /\ UNCHANGED <<serverVars, filesToUpdate, filesToDelete, isApplyingServerChange,
                   debounceTimer, localFiles, handlers, journal>>

\* handleFileUpdatedEvent / handleFileDeletedEvent up to the await on the
\* vault: the flag is set.  A file_deleted event for a path that is not in the
\* vault awaits nothing and resets the flag in its finally.
handleServerEvent(h, event, path) ==
    /\ handlers[h].pc = "free"
    /\ \A g \in Handlers : g < h => handlers[g].pc # "free"
    /\ IF event = "file_deleted" /\ path \notin localFiles
       THEN /\ isApplyingServerChange' = FALSE
            /\ handlers' = [handlers EXCEPT ![h] = [pc |-> "done", event |-> event,
                                                     path |-> path]]
       ELSE /\ isApplyingServerChange' = TRUE
            /\ handlers' = [handlers EXCEPT ![h] = [pc |-> "applying", event |-> event,
                                                     path |-> path]]
    /\ UNCHANGED <<serverVars, isSyncing, filesToUpdate, filesToDelete, debounceTimer,
                   localFiles, sync, journal>>

\* The vault operation of the handler takes effect and the vault fires its
\* event; then the finally of the handler resets the flag.
HandlerApply(h) ==
    /\ handlers[h].pc = "applying"
    /\ LET path == handlers[h].path
           event == IF handlers[h].event = "file_updated"
                    THEN (IF path \in localFiles THEN "modify" ELSE "create")
                    ELSE (IF path \in localFiles THEN "delete" ELSE "none")
       IN  /\ localFiles' = VaultAfter(event, path, << >>)
           /\ IF event = "none"
              THEN UNCHANGED <<filesToUpdate, filesToDelete, debounceTimer>>
              ELSE Listened(registerVaultEvents(event, path, << >>))
    /\ isApplyingServerChange' = FALSE
    /\ handlers' = [handlers EXCEPT ![h].pc = "done"]
    /\ UNCHANGED <<serverVars, isSyncing, sync, journal>>

LocalEdits ==
    {[event |-> e, path |-> p, oldPath |-> << >>] :
        e \in {"create", "modify", "delete"}, p \in PluginPaths}
    \cup {[event |-> "rename", path |-> PathB, oldPath |-> PathA]}

NextPlugin ==
    \/ \E e \in LocalEdits : LocalEdit(e.event, e.path, e.oldPath)
    \/ TimerFires
    \/ ManualPush
    \/ PushSend
    \/ PushDone
    \/ PullCall
    \/ \E files \in SUBSET PluginPaths : PullReceive(files)
    \/ \E path \in PluginPaths, differs \in BOOLEAN : PullApply(path, differs)
    \/ PullDone
    \/ InitialSyncCall
    \/ InitialSyncDone
    \/ \E h \in Handlers, event \in {"file_updated", "file_deleted"}, path \in PluginPaths :
          handleServerEvent(h, event, path)
    \/ \E h \in Handlers : HandlerApply(h)

\* state.NewManager(dataDir) on the filesystem f at the time t, and no request yet;
\* the plugin of the device is loaded.
Started(f, t) ==
    /\ fs = f
    /\ now = t
    /\ clients = << >>
    /\ trackedClients = LoadTrackedClients(f, VaultPath)
    /\ saves = {}
    /\ conn = [c \in Conns |-> FreeConn]
    /\ closed = {}
    /\ rx = [d \in Devices |-> << >>]
    /\ push = [p \in Pushes |-> FreePush]
    /\ initial = [pc |-> "free", dev |-> << >>, archive |-> Archive(TRUE, << >>)]
    /\ pulled = [status |-> 0, files |-> {}, seen |-> 0, idle |-> TRUE, walking |-> 0]
    /\ commits = << >>
    /\ bcasts = << >>
    /\ mutations = << >>
    /\ idleSince = [d \in Devices |-> 0]
    /\ PluginLoaded

Init == Started(RestartedVault, 1)

Next ==
    \/ \E c \in Conns, d \in Devices : EventsConnect(c, d)
    \/ \E c \in Conns : EventsReadMissed(c)
    \/ \E c \in Conns : EventsClearMissed(c)
    \/ \E c \in Conns : EventsCatchUp(c)
    \/ \E c \in Conns : EventsRelay(c)
    \/ \E c \in Conns : EventsHeartbeat(c)
    \/ \E c \in Conns : EventsDisconnect(c)
    \/ \E ids \in saves : SaveTracked(ids)
    \/ \E p \in Pushes, req \in PushRequests : PushStart(p, DeviceA, req)
    \/ \E p \in Pushes : PushDelete(p)
    \/ \E p \in Pushes : PushDeleteBroadcast(p)
    \/ \E p \in Pushes : PushUpdate(p)
    \/ \E p \in Pushes : PushUpdateBroadcast(p)
    \/ \E p \in Pushes : PushCommit(p)

Spec == Init /\ [][Next]_vars

(***************************************************************************)
(* Pushes of every kind of item, and pulls, with nobody connected          *)
(***************************************************************************)
NextVault ==
    \/ \E p \in Pushes, req \in VaultRequests : PushStart(p, DeviceA, req)
    \/ \E p \in Pushes : PushDelete(p)
    \/ \E p \in Pushes : PushDeleteBroadcast(p)
    \/ \E p \in Pushes : PushUpdate(p)
    \/ \E p \in Pushes : PushUpdateBroadcast(p)
    \/ \E p \in Pushes : PushCommit(p)
    \/ PullHandler

SpecVault == Init /\ [][NextVault]_vars

(***************************************************************************)
(* The initial replace, with event streams                                 *)
(***************************************************************************)
NextInitial ==
    \/ \E c \in Conns, d \in Devices : EventsConnect(c, d)
    \/ \E c \in Conns : EventsReadMissed(c)
    \/ \E c \in Conns : EventsClearMissed(c)
    \/ \E c \in Conns : EventsCatchUp(c)
    \/ \E c \in Conns : EventsRelay(c)
    \/ \E c \in Conns : EventsDisconnect(c)
    \/ \E ids \in saves : SaveTracked(ids)
    \/ \E d \in Devices, a \in Archives : InitialSyncStart(d, a)
    \/ InitialSyncClean
    \/ InitialSyncExtract
    \/ InitialSyncBroadcast

SpecInitial == Init /\ [][NextInitial]_vars

(***************************************************************************)
(* A restart with a backlog in the spool of device B, which reconnects     *)
(* while device A pushes                                                   *)
(***************************************************************************)
InitBacklog == \E k \in Backlogs : Started(Backlog(k), k)

NextBacklog ==
    \/ \E c \in Conns : EventsConnect(c, DeviceB)
    \/ \E c \in Conns : EventsReadMissed(c)
    \/ \E c \in Conns : EventsClearMissed(c)
    \/ \E c \in Conns : EventsCatchUp(c)
    \/ \E c \in Conns : EventsRelay(c)
    \/ \E c \in Conns : EventsDisconnect(c)
    \/ \E p \in Pushes, req \in PushRequests : PushStart(p, DeviceA, req)
    \/ \E p \in Pushes : PushDelete(p)
    \/ \E p \in Pushes : PushDeleteBroadcast(p)
    \/ \E p \in Pushes : PushUpdate(p)
    \/ \E p \in Pushes : PushUpdateBroadcast(p)
    \/ \E p \in Pushes : PushCommit(p)

SpecBacklog == InitBacklog /\ [][NextBacklog]_vars

(***************************************************************************)
(* The registry lock (Manager.mutex): the server with the Lock() and       *)
(* RLock() calls of the registry as steps of their own                     *)
(*                                                                         *)
(* Manager.mutex is a sync.RWMutex.  AddClient and RemoveClient take       *)
(* Lock(); Broadcast takes RLock() and, while holding it, calls            *)
(* GetAllTrackedClients and IsClientActive, which take RLock() again.  An  *)
(* RLock() waits while a Lock() call holds or waits for the mutex, and a   *)
(* Lock() waits while a reader holds it.  The state of the mutex is read   *)
(* from the calls under way: pc "delLocked" / "updLocked" of a push        *)
(* (Broadcast holds the RLock and has not yet re-acquired it), "adding" /  *)
(* "removing" of a connection (AddClient / RemoveClient waits in Lock()).  *)
(* The re-acquisitions of one Broadcast call are one step.                 *)
(***************************************************************************)
RLockHolders == {p \in Pushes : push[p].pc \in {"delLocked", "updLocked"}}

LockWaiters == {c \in Conns : conn[c].pc \in {"adding", "removing"}}

\* m.mutex.RLock() returns.
RLockGranted == LockWaiters = {}

\* m.mutex.Lock() returns.
LockGranted == RLockHolders = {}

\* EventsHandler up to the m.mutex.Lock() of AddClient.
MutexConnect(c, deviceID) ==
    /\ conn[c].pc = "free"
    /\ \A b \in Conns : b < c => conn[b].pc # "free"
    /\ deviceID # << >>
    /\ conn' = [conn EXCEPT ![c] = [FreeConn EXCEPT !.pc = "adding", !.dev = deviceID]]
    /\ UNCHANGED <<pluginVars, fs, now, clients, trackedClients, saves, closed, rx, push,
                   initial, pulled, commits, bcasts, mutations, idleSince>>

\* AddClient from its Lock() to its Unlock(), and the deferral of RemoveClient.
MutexAddClient(c) ==
    /\ conn[c].pc = "adding"
    /\ LockGranted
    /\ AddClient(conn[c].dev, c)
    /\ conn' = [conn EXCEPT ![c] = [FreeConn EXCEPT
                   !.pc = "registered", !.dev = conn[c].dev,
                   !.offline = ~IsClientActive(conn[c].dev),
                   !.from = idleSince[conn[c].dev], !.upto = Len(bcasts),
                   !.opened = Len(rx[conn[c].dev])]]
    /\ UNCHANGED <<pluginVars, fs, now, closed, rx, push, initial, pulled, commits, bcasts,
                   mutations, idleSince>>

\* case <-ctx.Done(): the handler returns, up to the m.mutex.Lock() of the
\* deferred RemoveClient.
MutexDisconnect(c) ==
    /\ conn[c].pc = "select"
    /\ conn' = [conn EXCEPT ![c].pc = "removing"]
    /\ UNCHANGED <<pluginVars, fs, now, clients, trackedClients, saves, closed, rx, push,
                   initial, pulled, commits, bcasts, mutations, idleSince>>

\* RemoveClient from its Lock() to its Unlock().
MutexRemoveClient(c) ==
    /\ conn[c].pc = "removing"
    /\ LockGranted
    /\ RemoveClient(conn[c].dev)
    /\ conn' = [conn EXCEPT ![c].pc = "closed"]
    /\ idleSince' = IF IsClientActive(conn[c].dev)
                    THEN [idleSince EXCEPT ![conn[c].dev] = Len(bcasts)]
                    ELSE idleSince
    /\ UNCHANGED <<pluginVars, fs, now, trackedClients, saves, rx, push, initial, pulled,
                   commits, bcasts, mutations>>

\* The m.mutex.RLock() at the head of Broadcast.
MutexBroadcastEnter(p) ==
    /\ push[p].pc \in {"delBcast", "updBcast"}
    /\ RLockGranted
    /\ push' = [push EXCEPT ![p].pc = IF push[p].pc = "delBcast" THEN "delLocked"
                                      ELSE "updLocked"]
    /\ UNCHANGED <<pluginVars, fs, now, clients, trackedClients, saves, conn, closed, rx,
                   initial, pulled, commits, bcasts, mutations, idleSince>>

\* The rest of the Broadcast of a delete event, from the RLock() of
\* GetAllTrackedClients to the deferred RUnlock().
MutexDeleteBroadcast(p) ==
    /\ push[p].pc = "delLocked"
    /\ RLockGranted
    /\ Broadcast(push[p].dev,
                 FileEventData(push[p].req.FilesToDelete[push[p].i], << >>),
                 PushOrigin(p, "delete"))
    /\ push' = [push EXCEPT ![p] = AtDelete(push[p], push[p].i + 1)]
    /\ UNCHANGED <<pluginVars, clients, trackedClients, saves, closed, rx, initial,
                   pulled, commits, mutations, idleSince>>

\* The rest of the Broadcast of an update event.
MutexUpdateBroadcast(p) ==
    /\ push[p].pc = "updLocked"
    /\ RLockGranted
    /\ LET file == push[p].req.FilesToUpdate[push[p].i] IN
       Broadcast(push[p].dev, FileEventData(file.Path, file.Content),
                 PushOrigin(p, "update"))
    /\ push' = [push EXCEPT ![p] = AtUpdate(push[p], push[p].i + 1)]
    /\ UNCHANGED <<pluginVars, clients, trackedClients, saves, closed, rx, initial,
                   pulled, commits, mutations, idleSince>>

\* Device B opens and closes event streams while device A pushes.
NextMutex ==
    \/ \E c \in Conns : MutexConnect(c, DeviceB)
    \/ \E c \in Conns : MutexAddClient(c)
    \/ \E c \in Conns : EventsReadMissed(c)
    \/ \E c \in Conns : EventsClearMissed(c)
    \/ \E c \in Conns : EventsCatchUp(c)
    \/ \E c \in Conns : EventsRelay(c)
    \/ \E c \in Conns : MutexDisconnect(c)
    \/ \E c \in Conns : MutexRemoveClient(c)
    \/ \E p \in Pushes, req \in PushRequests : PushStart(p, DeviceA, req)
    \/ \E p \in Pushes : PushDelete(p)
    \/ \E p \in Pushes : PushUpdate(p)
    \/ \E p \in Pushes : MutexBroadcastEnter(p)
    \/ \E p \in Pushes : MutexDeleteBroadcast(p)
    \/ \E p \in Pushes : MutexUpdateBroadcast(p)
    \/ \E p \in Pushes : PushCommit(p)

\* The positions a step can take the push handler p to.
PushPositions(p) ==
    {[push[p] EXCEPT !.pc = x, !.i = j] :
        x \in {"delete", "delBcast", "delLocked", "update", "updBcast", "updLocked",
               "commit", "done"},
        j \in 0..(Len(push[p].req.FilesToDelete) + Len(push[p].req.FilesToUpdate) + 1)}

\* The push handler p is not kept waiting: it is at a vault call or at the
\* commit, or at an RLock() of Broadcast that is granted.
PushRunnable(p) ==
    \/ push[p].pc \in {"delete", "update", "commit"}
    \/ push[p].pc \in {"delBcast", "delLocked", "updBcast", "updLocked"} /\ RLockGranted

\* A step of the push handler p, told by its position alone: of the steps of
\* NextMutex, those of the handler p are the ones that change push[p], and
\* one of them can be taken exactly when PushRunnable(p).
PushStep(p) ==
    /\ PushRunnable(p)
    /\ \E r \in PushPositions(p) : push' = [push EXCEPT ![p] = r]
    /\ push'[p] # push[p]

\* What the Go scheduler runs if it can run: the steps of a push handler and
\* the Lock() calls of AddClient and RemoveClient that are not kept waiting.
\* What a subscriber does (connect, read its stream, disconnect) has no such
\* guarantee.
Scheduling ==
    /\ \A p \in Pushes : WF_push(PushStep(p))
    /\ \A c \in Conns : WF_vars(MutexAddClient(c))
    /\ \A c \in Conns : WF_vars(MutexRemoveClient(c))

SpecMutex == Init /\ [][NextMutex]_vars /\ Scheduling

(***************************************************************************)
(* What the histories tell                                                 *)
(***************************************************************************)
RECURSIVE KeysOf(_)
KeysOf(entries) ==
    IF entries = << >> THEN << >> ELSE Head(entries).keys \o KeysOf(Tail(entries))

Range(seq) == {seq[i] : i \in DOMAIN seq}

Count(seq, x) == Cardinality({i \in DOMAIN seq : seq[i] = x})

\* The events written to the streams of device d as frames of their own.
Delivered(d) == KeysOf(SelectSeq(rx[d], LAMBDA e : e.via \in {"live", "replay"}))

\* The events accounted for on the streams of device d, the ones a
\* full_sync_required frame stands for included.
Accounted(d) == KeysOf(rx[d])

LiveKeys(c) == KeysOf(SelectSeq(Stream(c), LAMBDA e : e.via = "live"))

ReplayKeys(c) == KeysOf(SelectSeq(Stream(c), LAMBDA e : e.via = "replay"))

\* The keys of the broadcasts with the indices S, in order.
RECURSIVE BroadcastKeys(_)
BroadcastKeys(S) ==
    IF S = {} THEN << >>
    ELSE LET first == CHOOSE i \in S : \A j \in S : i <= j IN
         <<bcasts[first].key>> \o BroadcastKeys(S \ {first})

\* The spool files of device d on the filesystem f.
SpoolOf(f, d) ==
    LET dir == ClientDir(VaultPath, d) IN
    [q \in (IF IsDir(f, dir) THEN Children(f, dir) ELSE {}) |-> f[q]]

\* No two broadcasts read the same time.Now().
DistinctTimes == \A i, j \in DOMAIN bcasts : i # j => bcasts[i].at # bcasts[j].at

\* Device d never had two connections at a time: each of its connections was
\* opened when it had none.
OneAtATime(d) == \A o \in Conns : conn[o].dev = d => conn[o].offline

\* In this step the event ev is offered to device d once: to the handler of
\* its registered channel when that handler is blocked in its select, and
\* otherwise as the spool file of the time t.
Offered(d, ev, t) ==
    LET file == Append(ClientDir(VaultPath, d), FormatInt(t) \o JsonSuffix) IN
    IF IsClientActive(d) /\ ReceiverWaiting(clients[d])
    THEN /\ conn'[clients[d]] = [conn[clients[d]] EXCEPT !.pc = "got", !.msg = ev]
         /\ \A c \in Conns : conn[c].dev = d /\ c # clients[d] => conn'[c] = conn[c]
         /\ SpoolOf(fs', d) = SpoolOf(fs, d)
    ELSE /\ \A c \in Conns : conn[c].dev = d => conn'[c] = conn[c]
         /\ DOMAIN SpoolOf(fs', d) = DOMAIN SpoolOf(fs, d) \cup {file}
         /\ fs'[file] = FileJson(MarshalEvent(ev))
         /\ \A q \in DOMAIN SpoolOf(fs, d) \ {file} : fs'[q] = fs[q]

\* In this step nothing is offered to device d.
NotOffered(d) ==
    /\ \A c \in Conns : conn[c].dev = d => conn'[c] = conn[c]
    /\ SpoolOf(fs', d) = SpoolOf(fs, d)

(***************************************************************************)
(* Properties                                                              *)
(***************************************************************************)

\* C1: when the handler of a connection waits in its relay loop and no push is
\* under way, every event that was broadcast to its device while the handler
\* was in the relay loop, as the registered channel of the device, is on the
\* stream of the connection, in the order of the broadcasts; and no event is on
\* a stream of its sender.
C1_RelayedWhileConnected ==
    /\ \A c \in Conns :
          (conn[c].pc = "select" /\ PushesIdle) =>
              LET Due(b) == /\ c \in b.relaying
                            /\ conn[c].dev \in b.targets
                            /\ conn[c].dev \in DOMAIN b.chans
                            /\ b.chans[conn[c].dev] = c
              IN  LiveKeys(c) = BroadcastKeys({i \in DOMAIN bcasts : Due(bcasts[i])})
    /\ \A i \in DOMAIN bcasts : bcasts[i].key \notin Range(Accounted(bcasts[i].sender))

\* C2: a Broadcast step offers its event exactly once to every tracked device
\* other than the sender (to the waiting handler of an active device, to the
\* spool otherwise), and offers nothing to the sender or to an untracked device.
C2_BroadcastOffersOnce ==
    [][Len(bcasts') > Len(bcasts) =>
         LET b == bcasts'[Len(bcasts')] IN
         /\ \A d \in trackedClients \ {b.sender} : Offered(d, b.event, now')
         /\ \A d \in Devices \ (trackedClients \ {b.sender}) : NotOffered(d)]_vars

\* C2 happens: the sender is tracked, and one broadcast was handed to a
\* waiting handler and another one went to the spool.
C2_Witness ==
    \E i, j \in DOMAIN bcasts :
        /\ bcasts[i].sender \in bcasts[i].tracked
        /\ bcasts[i].sent # {}
        /\ bcasts[j].targets \ bcasts[j].sent # {}

\* C3: with distinct spool times, a device that never had two connections at a
\* time is not written an event before an event that the broadcaster
\* processed earlier.
C3_DeliveredInOrder ==
    DistinctTimes =>
        \A d \in {x \in Devices : OneAtATime(x)} :
            LET ks == Delivered(d)
                Before(x, y) ==
                    /\ x # y
                    /\ \A a, b \in DOMAIN bcasts :
                          bcasts[a].key = x /\ bcasts[b].key = y => a < b
            IN  \A i, j \in DOMAIN ks : i < j => ~Before(ks[j], ks[i])

\* C4: with distinct spool times, once a connection of a device that never had
\* two connections at a time was opened after the last broadcast and has
\* caught up, every event offered to the device is accounted for on its
\* streams exactly once.
C4_NeitherLostNorTwice ==
    \A c \in Conns :
        LET d == conn[c].dev IN
        ( /\ DistinctTimes
          /\ OneAtATime(d)
          /\ conn[c].pc = "select"
          /\ conn[c].upto = Len(bcasts) )
        => \A i \in DOMAIN bcasts :
               d \in bcasts[i].targets => Count(Accounted(d), bcasts[i].key) = 1

\* C5: with distinct spool times, a connection of a device that never had two
\* connections at a time, opened after 1..10 events were broadcast to the
\* device since it lost its last connection, replays exactly these events
\* first and in the order of the broadcasts, then only later ones, and writes
\* no full_sync_required frame for the backlog.
C5_BacklogReplayed ==
    \A c \in Conns :
        LET d == conn[c].dev
            missed == BroadcastKeys({i \in (conn[c].from + 1)..conn[c].upto :
                                        d \in bcasts[i].targets})
            later == BroadcastKeys({i \in (conn[c].upto + 1)..Len(bcasts) :
                                       d \in bcasts[i].targets})
            replayed == ReplayKeys(c)
        IN  ( /\ DistinctTimes
              /\ OneAtATime(d)
              /\ conn[c].pc \in {"select", "got", "closed"}
              /\ Len(missed) \in 1..ResyncThreshold )
            => /\ Len(replayed) >= Len(missed)
               /\ SubSeq(replayed, 1, Len(missed)) = missed
               /\ Range(SubSeq(replayed, Len(missed) + 1, Len(replayed))) \subseteq Range(later)
               /\ \A i \in DOMAIN Stream(c) : Stream(c)[i].via # "resync"

RECURSIVE Implied(_, _)
Implied(fl, ms) ==
    IF ms = << >> THEN fl
    ELSE LET m == Head(ms)
             others == {f \in fl : f.Path # m.path}
         IN  Implied(IF ~m.ok THEN fl
                     ELSE IF m.op = "delete" THEN others
                     ELSE others \cup {File(m.path, m.content)},
                     Tail(ms))

\* C7: a pull answered while no push is under way, after at least one push
\* item, returns exactly the files that the items processed so far make of
\* the files pushed before the start.
C7_PullReturnsImplied ==
    (pulled.status = 200 /\ pulled.idle /\ pulled.seen >= 1)
    => pulled.files = Implied({File(PathA, ContentX)}, SubSeq(mutations, 1, pulled.seen))

\* Where the path of a push item leads, and whether that is outside the vault
\* or in what the server keeps in it.
Target(relPath) == Join(<<VaultPath, relPath>>)

Reserved(p) ==
    \/ ~IsPrefix(VaultRoot, p)
    \/ IsPrefix(Append(VaultRoot, GitName), p)
    \/ IsPrefix(Append(VaultRoot, missedEventsDir), p)

\* C8: no push creates or changes anything outside the vault, in the git
\* repository or in the spool, and no event is broadcast for an item whose
\* path leads there.
C8_ReservedUntouched ==
    /\ \A p \in DOMAIN fs : IsPrefix(VaultRoot, p) \/ IsPrefix(p, VaultRoot)
    /\ fs[GitHeadPath] = GitHeadNode
    /\ \A p \in Under(fs, Append(VaultRoot, missedEventsDir)) : fs[p].kind \in {"dir", "json"}
    /\ \A i \in DOMAIN bcasts :
          bcasts[i].origin.kind = "push" => ~Reserved(Target(bcasts[i].key.path))

\* C9: the last step of a successful initial sync is the only broadcast of the
\* handler; it offers the full_sync_required event of the replace exactly once
\* to every tracked device other than the sender and nothing to the sender;
\* the steps before it offer nothing to anybody.
C9_ReplaceOffersOneResync ==
    [][ /\ (initial.pc = "bcast" /\ initial'.pc = "done") =>
              /\ bcasts = << >>
              /\ Len(bcasts') = 1
              /\ \A d \in trackedClients \ {initial.dev} :
                    Offered(d, FullSyncEventData(InitialSyncMessage(initial.dev)), now')
              /\ \A d \in Devices \ (trackedClients \ {initial.dev}) : NotOffered(d)
        /\ (initial.pc \in {"free", "clean", "extract"} /\ initial' # initial) =>
              /\ bcasts' = bcasts
              /\ conn' = conn
              /\ \A d \in Devices : DOMAIN SpoolOf(fs', d) \subseteq DOMAIN SpoolOf(fs, d) ]_vars

\* C9 happens: the initial sync of a tracked sender is done and its event was
\* handed to the waiting handler of another device.
C9_Witness ==
    /\ initial.pc = "done"
    /\ Len(bcasts) = 1
    /\ bcasts[1].sender \in bcasts[1].tracked
    /\ bcasts[1].sent # {}

\* C10: every event a push handed to the broadcaster is the event of an item
\* of that push whose write or delete had returned without error before.
C10_BroadcastAfterWrite ==
    \A i \in DOMAIN bcasts :
        bcasts[i].origin.kind = "push" =>
            \E j \in DOMAIN mutations :
                /\ mutations[j].push = bcasts[i].origin.push
                /\ mutations[j].item = bcasts[i].origin.item
                /\ mutations[j].op = bcasts[i].origin.op
                /\ mutations[j].ok
                /\ mutations[j].path = bcasts[i].key.path
                /\ mutations[j].content = bcasts[i].key.content

\* C10 happens: a push broadcast the event of one item and made no broadcast
\* for another item, whose write or delete failed.
C10_Witness ==
    /\ \E i \in DOMAIN bcasts : bcasts[i].origin.kind = "push"
    /\ \E j \in DOMAIN mutations :
          /\ ~mutations[j].ok
          /\ push[mutations[j].push].pc = "done"

\* The devices that opened an event stream in this run of the server.
Opened == {conn[c].dev : c \in {b \in Conns : conn[b].pc # "free"}}

\* What NewManager would load as the tracked set if the server were
\* restarted now.
Reloaded == LoadTrackedClients(fs, VaultPath)

\* C11: once every save that AddClient started has been written, a restart
\* of the server reloads from clients.json every device that opened an event
\* stream.
C11_TrackedSurvivesRestart ==
    saves = {} => Opened \subseteq Reloaded

\* C12: no step of the server takes a device id out of the tracked set.
C12_TrackedNeverShrinks ==
    [][trackedClients \subseteq trackedClients']_vars

\* C12 happens: a device that was first tracked in this run has disconnected,
\* a push has broadcast since, and the device is still tracked.
C12_Witness ==
    /\ \E c \in Conns :
          /\ conn[c].pc = "closed"
          /\ conn[c].dev = DeviceA
          /\ ~IsClientActive(DeviceA)
          /\ idleSince[DeviceA] < Len(bcasts)
    /\ DeviceA \in trackedClients
    /\ DeviceA \notin LoadTrackedClients(RestartedVault, VaultPath)

\* C13: every device with an entry in Manager.clients is in
\* Manager.trackedClients.
C13_ActiveAreTracked ==
    DOMAIN clients \subseteq trackedClients

\* C13 happens: a device that was not tracked when the server started is
\* registered, and a device tracked from the start has registered and
\* deregistered.
C13_Witness ==
    /\ DOMAIN clients = {DeviceA}
    /\ DeviceA \notin LoadTrackedClients(RestartedVault, VaultPath)
    /\ \E c \in Conns : conn[c].dev = DeviceB /\ conn[c].pc = "closed"

\* C14: every push that was started answers, whatever the subscribers do and
\* however long a subscriber leaves its channel unread.
C14_MutationReturns ==
    \A p \in Pushes : (push[p].pc # "free") ~> (push[p].pc = "done")

\* The handler of connection c is between its AddClient and its RemoveClient.
Serving(c) == conn[c].pc \in {"registered", "draining", "catchup", "select", "got"}

\* C15: no two event-stream handlers are at the same time registered for,
\* draining the spool of or relaying to the same device id.
C15_OneHandlerPerDevice ==
    \A c1, c2 \in Conns :
        (Serving(c1) /\ Serving(c2) /\ conn[c1].dev = conn[c2].dev) => c1 = c2

\* C16: the channel of a connection is closed when, and only when, the
\* handler that made it has returned through its deferred RemoveClient.
C16_ClosedByItsHandler ==
    \A c \in Conns : (c \in closed) <=> (conn[c].pc = "closed")

\* C17: a handler that has left its relay loop on the disconnect of its
\* subscriber gets through its deferred RemoveClient: eventually it has
\* returned and the device has no entry in Manager.clients.
C17_DisconnectDeregisters ==
    \A c \in Conns :
        (conn[c].pc = "removing")
            ~> (conn[c].pc = "closed" /\ ~IsClientActive(conn[c].dev))

\* The items of the push request p that the handler has processed, and the
\* broadcasts the handler has made for them.
ItemsOf(p) == SelectSeq(mutations, LAMBDA m : m.push = p)

BroadcastsOf(p) ==
    SelectSeq(bcasts, LAMBDA b : b.origin.kind = "push" /\ b.origin.push = p)

\* The events that the items ms call for: one per item that succeeded, in the
\* order of the items.
RECURSIVE EventsFor(_)
EventsFor(ms) ==
    IF ms = << >> THEN << >>
    ELSE (IF Head(ms).ok
          THEN <<[path |-> Head(ms).path, content |-> Head(ms).content, message |-> NoText]>>
          ELSE << >>) \o EventsFor(Tail(ms))

\* C18: the step of a push item that fails leaves the filesystem as it was
\* and broadcasts nothing, and the handler goes on; when the push answers,
\* every item of the request was processed, in the order deletes then
\* updates, and the broadcasts of the push are the events of the items that
\* succeeded, one each.
C18_FailedItemSkipped ==
    [][\A p \in Pushes :
        /\ (/\ Len(ItemsOf(p)') = Len(ItemsOf(p)) + 1
            /\ ~ItemsOf(p)'[Len(ItemsOf(p)')].ok)
           => /\ fs' = fs
              /\ bcasts' = bcasts
              /\ conn' = conn
              /\ push'[p].pc \in {"delete", "update", "commit"}
        /\ (push[p].pc # "done" /\ push'[p].pc = "done")
           => /\ [k \in DOMAIN ItemsOf(p) |-> ItemsOf(p)[k].path]
                    = push[p].req.FilesToDelete
                      \o [k \in DOMAIN push[p].req.FilesToUpdate |->
                             push[p].req.FilesToUpdate[k].Path]
              /\ [k \in DOMAIN BroadcastsOf(p) |-> BroadcastsOf(p)[k].key]
                    = EventsFor(ItemsOf(p)) ]_vars

\* C18 happens: a push has answered in which a delete failed and a later
\* delete succeeded, and an update failed and a later update succeeded.
C18_Witness ==
    \E p \in Pushes :
        /\ push[p].pc = "done"
        /\ \E i, j, k, l \in DOMAIN ItemsOf(p) :
              /\ i < j /\ j < k /\ k < l
              /\ ItemsOf(p)[i].op = "delete" /\ ~ItemsOf(p)[i].ok
              /\ ItemsOf(p)[j].op = "delete" /\ ItemsOf(p)[j].ok
              /\ ItemsOf(p)[k].op = "update" /\ ~ItemsOf(p)[k].ok
              /\ ItemsOf(p)[l].op = "update" /\ ItemsOf(p)[l].ok
        /\ Len(BroadcastsOf(p)) = 2

\* A device id that opens no event stream.
DeviceC == <<"C">>

\* The event that the request behind the broadcast b hands to Broadcast when
\* the same request comes from the device s.
EventFrom(b, s) ==
    IF b.origin.kind = "initial" THEN FullSyncEventData(InitialSyncMessage(s))
    ELSE b.event

\* C19: what a broadcast hands to the handler of a device, or stores in its
\* spool, is what it would be if the same request had come from any other
\* sender: the channel message and the spool file tell nothing of the sender.
C19_SenderNotDisclosed ==
    [][Len(bcasts') > Len(bcasts) =>
          LET b == bcasts'[Len(bcasts')] IN
          \A d \in b.targets :
              \A s \in (Devices \cup {DeviceC}) \ {d} :
                  Offered(d, EventFrom(b, s), now')]_vars

\* The regular files of f under the vault root that are neither in the git
\* repository nor in the spool directory.
ListedFiles(f) ==
    {p \in Under(f, VaultRoot) :
        /\ IsFile(f, p)
        /\ ~IsPrefix(Append(VaultRoot, GitName), p)
        /\ ~IsPrefix(Append(VaultRoot, missedEventsDir), p)}

\* C20: a pull answers 200 with exactly the regular files of the vault that
\* lie outside the git repository and outside the spool directory.
C20_PullListsVaultFiles ==
    [][pulled' # pulled =>
          /\ pulled'.status = 200
          /\ {f.Path : f \in pulled'.files} = {Rel(VaultRoot, p) : p \in ListedFiles(fs)}]_vars

\* C21: when CleanDir or ExtractTarGz of an initial sync returns an error the
\* handler answers 500; that step broadcasts nothing, hands nothing to a
\* handler, stores nothing in a spool and leaves the registry as it was; and
\* the handler takes no step after it.
C21_FailedReplaceIsSilent ==
    [][/\ (initial.pc = "clean" /\ initial' # initial /\ CleanDir(fs, VaultPath).err)
          => initial'.pc = "failed"
       /\ (/\ initial.pc = "extract" /\ initial' # initial
           /\ ExtractTarGz(fs, initial.archive, VaultPath).err)
          => initial'.pc = "failed"
       /\ (initial.pc # "failed" /\ initial'.pc = "failed")
          => /\ bcasts' = bcasts /\ bcasts = << >>
             /\ conn' = conn
             /\ clients' = clients /\ trackedClients' = trackedClients
             /\ saves' = saves /\ closed' = closed
             /\ \A d \in Devices : SpoolOf(fs', d) = SpoolOf(fs, d)
       /\ initial.pc = "failed" => (initial' = initial /\ bcasts' = << >>)]_vars

\* C21 happens: an extraction failed after it had written a file, while the
\* handler of a tracked device other than the sender waited for events.
C21_Witness ==
    /\ initial.pc = "failed"
    /\ IsFile(fs, Join(<<VaultPath, <<"x", "/", "y", ".", "m", "d">>>>))
    /\ \E c \in Conns :
          /\ conn[c].pc = "select"
          /\ conn[c].dev # initial.dev
          /\ IsClientActive(conn[c].dev)

\* The event with the key k of the histories.
EventOfKey(k) ==
    IF k.message = NoText THEN FileEventData(k.path, k.content)
    ELSE FullSyncEventData(k.message)

\* What a subscriber reads from a frame: the event name and the members of
\* the JSON object of the data line (none for an empty data line).
Parsed(frame) ==
    [event |-> frame.event,
     data |-> IF frame.data = << >> THEN UnmarshalMap(<< >>)
              ELSE UnmarshalMap(frame.data[1])]

\* The frame of the event ev when it went through the spool: marshalled by
\* StoreMissedEvent, unmarshalled by RetrieveAndClearMissedEvents, replayed.
SpooledFrame(ev) == ReplayFrame(UnmarshalMap(MarshalEvent(ev)))

\* C22: every frame of an event on a stream, relayed from the channel or
\* replayed from the spool, reads the same as the frame the relay writes for
\* that event and as the frame the replay writes for it.
C22_SameFrameLiveOrReplayed ==
    \A d \in Devices :
        \A i \in DOMAIN rx[d] :
            rx[d][i].via \in {"live", "replay"} =>
                /\ Parsed(rx[d][i].frame) = Parsed(LiveFrame(EventOfKey(rx[d][i].keys[1])))
                /\ Parsed(rx[d][i].frame) = Parsed(SpooledFrame(EventOfKey(rx[d][i].keys[1])))

\* The broadcasts of pushes that carry the key k.
PushBroadcasts(k) ==
    {j \in DOMAIN bcasts : bcasts[j].origin.kind = "push" /\ bcasts[j].key = k}

\* C23: the frame of the event of a push update item is named file_updated
\* and carries the path and the base64 text of the item; a frame named
\* file_deleted is the frame of the event of a delete item; and a push has
\* broadcast one event for every update item it wrote.
C23_UpdateFramesNamedUpdated ==
    /\ \A d \in Devices :
          \A i \in DOMAIN rx[d] :
              LET e == rx[d][i]
                  k == e.keys[1]
              IN  e.via \in {"live", "replay"} =>
                    /\ (\E j \in PushBroadcasts(k) : bcasts[j].origin.op = "update")
                       => /\ e.frame.event = SSEEventFileUpdated
                          /\ Parsed(e.frame).data
                                = UnmarshalMap(<<[k |-> "path", v |-> k.path],
                                                 [k |-> "content", v |-> k.content]>>)
                    /\ e.frame.event = SSEEventFileDeleted
                       => \E j \in PushBroadcasts(k) : bcasts[j].origin.op = "delete"
    /\ \A p \in Pushes :
          push[p].pc \in {"commit", "done"} =>
              Len(SelectSeq(BroadcastsOf(p), LAMBDA b : b.origin.op = "update"))
                 = Len(SelectSeq(ItemsOf(p), LAMBDA m : m.op = "update" /\ m.ok))

\* The paths that a request has in both of its lists.
InBothLists(req) ==
    {req.FilesToDelete[i] : i \in DOMAIN req.FilesToDelete}
        \cap {req.FilesToUpdate[i].Path : i \in DOMAIN req.FilesToUpdate}

Stored(d) ==
    BroadcastKeys({i \in DOMAIN bcasts : d \in bcasts[i].targets \ bcasts[i].sent})

\* The events that the calls of RetrieveAndClearMissedEvents for device d
\* returned and the catch-ups wrote or summed up, in order.
Drained(d) == KeysOf(SelectSeq(rx[d], LAMBDA e : e.via \in {"replay", "resync"}))

\* No handler of device d is between its AddClient and the end of its
\* catch-up.
NoDrainUnderWay(d) ==
    \A c \in Conns : conn[c].dev = d => conn[c].pc \notin {"registered", "draining", "catchup"}

\* C25: with distinct spool times and a device that never had two connections
\* at a time, whenever no retrieval is under way the events retrieved so far,
\* followed by the events a retrieval would return now, are the events stored
\* for the device, in the order they were stored.
C25_DrainReturnsStored ==
    \A d \in Devices :
        (DistinctTimes /\ OneAtATime(d) /\ NoDrainUnderWay(d))
        => Drained(d) \o MapKeys(ReadMissedEvents(fs, VaultPath, d).events) = Stored(d)

\* C26: every step in which Broadcast stores an event for a device adds one
\* file to the spool of the device: no stored event replaces an earlier one.
C26_StoreAddsAnEntry ==
    [][\A d \in Devices :
          (/\ Len(bcasts') = Len(bcasts) + 1
           /\ d \in bcasts'[Len(bcasts')].targets \ bcasts'[Len(bcasts')].sent)
          => Cardinality(DOMAIN SpoolOf(fs', d)) = Cardinality(DOMAIN SpoolOf(fs, d)) + 1]_vars

(***************************************************************************)
(* The vault lock (state.FileSystemMutex): pushes, pulls and the initial   *)
(* replace with the Lock() and RLock() calls of the vault as steps of      *)
(* their own                                                               *)
(*                                                                         *)
(* FileSystemMutex is a sync.RWMutex.  WriteFile, DeleteFile, CleanDir,    *)
(* ExtractTarGz and CommitChanges take Lock() and defer Unlock();          *)
(* GetAllFiles takes RLock() and defers RUnlock().  The state of the mutex *)
(* is read from the calls under way: pc "deleting" / "updating" /          *)
(* "committing" of a push, "cleaning" / "extracting" of the initial        *)
(* replace (the call holds the Lock), and pulled.walking (the number of    *)
(* GetAllFiles calls that hold the RLock).                                 *)
(***************************************************************************)
MaxPulls == 2

FsWriters ==
    {<<"push", p>> : p \in {q \in Pushes : push[q].pc \in {"deleting", "updating", "committing"}}}
    \cup (IF initial.pc \in {"cleaning", "extracting"} THEN {<<"initial", 0>>} ELSE {})

\* FileSystemMutex.Lock() returns.
FsLockGranted == FsWriters = {} /\ pulled.walking = 0

\* FileSystemMutex.RLock() returns.
FsRLockGranted == FsWriters = {}

\* A faulty entry of CleanDir and ExtractTarGz that does not wait for the
\* mutex: the lock discipline has to tell it from FsInitialEnter.
FsInitialEnterUnlocked ==
    /\ initial.pc \in {"clean", "extract"}
    /\ initial' = [initial EXCEPT !.pc = IF initial.pc = "clean" THEN "cleaning"
                                         ELSE "extracting"]
    /\ UNCHANGED <<pluginVars, fs, now, clients, trackedClients, saves, conn, closed, rx,
                   push, pulled, commits, bcasts, mutations, idleSince>>

\* The Lock() at the head of CleanDir and of ExtractTarGz.
FsInitialEnter ==
    /\ initial.pc \in {"clean", "extract"}
    /\ FsLockGranted
    /\ initial' = [initial EXCEPT !.pc = IF initial.pc = "clean" THEN "cleaning"
                                         ELSE "extracting"]
    /\ UNCHANGED <<pluginVars, fs, now, clients, trackedClients, saves, conn, closed, rx,
                   push, pulled, commits, bcasts, mutations, idleSince>>

\* CleanDir from its Lock() to its deferred Unlock().
FsInitialClean ==
    /\ initial.pc = "cleaning"
    /\ LET r == CleanDir(fs, VaultPath) IN
       /\ fs' = r.fs
       /\ initial' = [initial EXCEPT !.pc = IF r.err THEN "failed" ELSE "extract"]
    /\ UNCHANGED <<pluginVars, now, clients, trackedClients, saves, conn, closed, rx,
                   push, pulled, commits, bcasts, mutations, idleSince>>

\* ExtractTarGz from its Lock() to its deferred Unlock().
FsInitialExtract ==
    /\ initial.pc = "extracting"
    /\ LET r == ExtractTarGz(fs, initial.archive, VaultPath) IN
       /\ fs' = r.fs
       /\ initial' = [initial EXCEPT !.pc = IF r.err THEN "failed" ELSE "bcast"]
    /\ UNCHANGED <<pluginVars, now, clients, trackedClients, saves, conn, closed, rx,
                   push, pulled, commits, bcasts, mutations, idleSince>>

\* The update item whose content is no base64: PushHandler skips it before
\* any call of the vault.
FsPushUndecodable(p) ==
    /\ push[p].pc = "update"
    /\ ~DecodeString(push[p].req.FilesToUpdate[push[p].i].Content).ok
    /\ PushUpdate(p)

\* The Lock() at the head of DeleteFile, WriteFile and CommitChanges.
FsPushEnter(p) ==
    /\ push[p].pc \in {"delete", "update", "commit"}
    /\ push[p].pc = "update" => DecodeString(push[p].req.FilesToUpdate[push[p].i].Content).ok
    /\ FsLockGranted
    /\ push' = [push EXCEPT ![p].pc = CASE push[p].pc = "delete" -> "deleting"
                                        [] push[p].pc = "update" -> "updating"
                                        [] OTHER -> "committing"]
    /\ UNCHANGED <<pluginVars, fs, now, clients, trackedClients, saves, conn, closed, rx,
                   initial, pulled, commits, bcasts, mutations, idleSince>>

\* DeleteFile from its Lock() to its deferred Unlock().
FsPushDelete(p) ==
    /\ push[p].pc = "deleting"
    /\ LET path == push[p].req.FilesToDelete[push[p].i]
           r == DeleteFile(fs, VaultPath, path)
       IN  /\ fs' = r.fs
           /\ mutations' = Append(mutations, Processed(p, "delete", path, << >>, ~r.err))
           /\ push' = [push EXCEPT ![p] =
                         IF r.err THEN AtDelete(push[p], push[p].i + 1)
                         ELSE [push[p] EXCEPT !.pc = "delBcast"]]
    /\ UNCHANGED <<pluginVars, now, clients, trackedClients, saves, conn, closed, rx,
                   initial, pulled, commits, bcasts, idleSince>>

\* WriteFile from its Lock() to its deferred Unlock().
FsPushUpdate(p) ==
    /\ push[p].pc = "updating"
    /\ LET file == push[p].req.FilesToUpdate[push[p].i]
           w == WriteFile(fs, VaultPath, file.Path, DecodeString(file.Content).bytes)
       IN  /\ fs' = w.fs
           /\ mutations' = Append(mutations,
                                  Processed(p, "update", file.Path, file.Content, ~w.err))
           /\ push' = [push EXCEPT ![p] =
                         IF w.err THEN AtUpdate(push[p], push[p].i + 1)
                         ELSE [push[p] EXCEPT !.pc = "updBcast"]]
    /\ UNCHANGED <<pluginVars, now, clients, trackedClients, saves, conn, closed, rx,
                   initial, pulled, commits, bcasts, idleSince>>

\* CommitChanges from its Lock() to its deferred Unlock(), then the 200.
FsPushCommit(p) ==
    /\ push[p].pc = "committing"
    /\ commits' = CommitChanges(fs, commits, VaultPath,
                                PushCommitMessage(push[p].dev)).commits
    /\ push' = [push EXCEPT ![p].pc = "done"]
    /\ UNCHANGED <<pluginVars, fs, now, clients, trackedClients, saves, conn, closed, rx,
                   initial, pulled, bcasts, mutations, idleSince>>

\* The RLock() at the head of GetAllFiles, in one more pull handler.
FsPullEnter ==
    /\ pulled.walking < MaxPulls
    /\ FsRLockGranted
    /\ pulled' = [pulled EXCEPT !.walking = @ + 1]
    /\ UNCHANGED <<pluginVars, fs, now, clients, trackedClients, saves, conn, closed, rx,
                   push, initial, commits, bcasts, mutations, idleSince>>

\* GetAllFiles from its RLock() to its deferred RUnlock(), and the response.
FsPullWalk ==
    /\ pulled.walking > 0
    /\ LET r == GetAllFiles(fs, VaultPath) IN
       pulled' = [status |-> IF r.err THEN 500 ELSE 200, files |-> r.files,
                  seen |-> Len(mutations),
                  idle |-> PushesIdle /\ initial.pc \in {"free", "done", "failed"},
                  walking |-> pulled.walking - 1]
    /\ UNCHANGED <<pluginVars, fs, now, clients, trackedClients, saves, conn, closed, rx,
                   push, initial, commits, bcasts, mutations, idleSince>>

\* Device A pushes and device B replaces the vault while pulls are served.
NextFsLock ==
    \/ \E p \in Pushes, req \in VaultRequests : PushStart(p, DeviceA, req)
    \/ \E p \in Pushes : FsPushUndecodable(p)
    \/ \E p \in Pushes : FsPushEnter(p)
    \/ \E p \in Pushes : FsPushDelete(p)
    \/ \E p \in Pushes : PushDeleteBroadcast(p)
    \/ \E p \in Pushes : FsPushUpdate(p)
    \/ \E p \in Pushes : PushUpdateBroadcast(p)
    \/ \E p \in Pushes : FsPushCommit(p)
    \/ \E a \in Archives : InitialSyncStart(DeviceB, a)
    \/ FsInitialEnter
    \/ FsInitialClean
    \/ FsInitialExtract
    \/ InitialSyncBroadcast
    \/ FsPullEnter
    \/ FsPullWalk

SpecFsLock == Init /\ [][NextFsLock]_vars

\* C27: at most one call holds the vault lock for writing (WriteFile,
\* DeleteFile, CleanDir, ExtractTarGz, CommitChanges), and no GetAllFiles walk
\* is under way while one does.
C27_VaultLockDiscipline ==
    /\ Cardinality(FsWriters) <= 1
    /\ FsWriters # {} => pulled.walking = 0

\* A push writes a file under the lock while the initial replace waits to
\* extract and a pull waits to walk.
C27_Witness ==
    /\ \E p \in Pushes : push[p].pc = "updating"
    /\ initial.pc = "extract"
    /\ pulled.walking = 0
    /\ pulled.status = 200


\* How far a connection is: 0 not yet accepted, 1 Opening (registered, before
\* the retrieval), 2 Catching-Up (the retrieval and the replay), 3 Live (the
\* relay loop), 4 Closed.
Phase(pc) ==
    CASE pc = "free" -> 0
      [] pc = "registered" -> 1
      [] pc \in {"draining", "catchup"} -> 2
      [] pc \in {"select", "got"} -> 3
      [] OTHER -> 4

CatchUpPrefix(s) ==
    \A i, j \in DOMAIN s :
        (i < j /\ s[j].via \in {"replay", "resync"}) => s[i].via \in {"replay", "resync"}

InitFirstRun == Started(FsPut(EmptyVault, Join(<<VaultPath, PathA>>), FileBytes(<<120>>)), 1)

SpecFirstRun == InitFirstRun /\ [][Next]_vars

\* C29: once no started save of the tracked set is still to run, clients.json
\* holds every tracked device.
C29_SavedAreTracked ==
    saves = {} => trackedClients \subseteq LoadTrackedClients(fs, VaultPath)

(***************************************************************************)
(* The initial replace after a restart with a backlog in the spool of      *)
(* device B                                                                *)
(***************************************************************************)
SpecInitialBacklog == InitBacklog /\ [][NextInitial]_vars

\* C30: the CleanDir step of an initial replace leaves the spool of every
\* device as it was.
C30_CleanKeepsSpool ==
    [][(initial.pc = "clean" /\ initial'.pc # "clean")
       => \A d \in Devices : SpoolOf(fs', d) = SpoolOf(fs, d)]_vars

\* C31: when an initial replace has answered 200, the history holds a commit:
\* under SpecInitial no push runs, so a commit can only be the snapshot of the
\* replaced vault.
C31_ReplaceIsCommitted ==
    initial.pc = "done" => commits # << >>

\* C33: no channel of the active map is closed, and every step of Broadcast
\* sends only on channels of the active map: no send is on a closed channel.
C33_NoSendOnClosed ==
    [][/\ \A d \in DOMAIN clients : clients[d] \notin closed
       /\ Len(bcasts') = Len(bcasts) + 1
          => \A d \in bcasts'[Len(bcasts')].sent :
                /\ d \in DOMAIN clients
                /\ clients[d] \notin closed
                /\ conn'[clients[d]].pc = "got"]_vars

\* A channel of device B was closed, and an event was then sent on the channel
\* of a later connection of the device.
C33_Witness ==
    \E c, o \in Conns :
        /\ c < o
        /\ conn[c].dev = conn[o].dev
        /\ c \in closed
        /\ conn[o].offline
        /\ conn[o].pc = "got"

\* C34: every call of Broadcast that holds the registry read lock returns, and
\* every call of AddClient that waits for the registry write lock returns.
C34_RegistryCallsReturn ==
    /\ \A p \in Pushes : (p \in RLockHolders) ~> (p \notin RLockHolders)
    /\ \A c \in Conns : (conn[c].pc = "adding") ~> (conn[c].pc # "adding")

\* C35: the step in which a handler returns leaves the channel that another
\* connection of the same device has registered open and registered.
C35_ExitKeepsOtherChannel ==
    [][\A c, o \in Conns :
          (/\ conn[c].pc # "closed" /\ conn'[c].pc = "closed"
           /\ o # c
           /\ IsClientActive(conn[c].dev)
           /\ clients[conn[c].dev] = o)
          => /\ o \notin closed'
             /\ conn[c].dev \in DOMAIN clients'
             /\ clients'[conn[c].dev] = o]_vars

(***************************************************************************)
(* Two pushes at a time: devices A and C each push one update of a.md      *)
(* while device B opens its event stream                                  *)
(***************************************************************************)
MaxRacingPushes == 2

RacingPushes == 1..MaxRacingPushes

RacingDevice(p) == IF p = 1 THEN DeviceA ELSE DeviceC

\* The request of push p: the first push writes X to a.md, the second Y.
RacingRequest(p) ==
    PushRequest(<<File(PathA, IF p = 1 THEN ContentX ELSE ContentY)>>, << >>)

InitRacing ==
    /\ fs = RestartedVault
    /\ now = 1
    /\ clients = << >>
    /\ trackedClients = LoadTrackedClients(RestartedVault, VaultPath)
    /\ saves = {}
    /\ conn = [c \in Conns |-> FreeConn]
    /\ closed = {}
    /\ rx = [d \in Devices |-> << >>]
    /\ push = [p \in RacingPushes |-> FreePush]
    /\ initial = [pc |-> "free", dev |-> << >>, archive |-> Archive(TRUE, << >>)]
    /\ pulled = [status |-> 0, files |-> {}, seen |-> 0, idle |-> TRUE, walking |-> 0]
    /\ commits = << >>
    /\ bcasts = << >>
    /\ mutations = << >>
    /\ idleSince = [d \in Devices |-> 0]
    /\ PluginLoaded

NextRacing ==
    \/ \E c \in Conns : EventsConnect(c, DeviceB)
    \/ \E c \in Conns : EventsReadMissed(c)
    \/ \E c \in Conns : EventsClearMissed(c)
    \/ \E c \in Conns : EventsCatchUp(c)
    \/ \E c \in Conns : EventsRelay(c)
    \/ \E p \in RacingPushes : PushStart(p, RacingDevice(p), RacingRequest(p))
    \/ \E p \in RacingPushes : PushUpdate(p)
    \/ \E p \in RacingPushes : PushUpdateBroadcast(p)
    \/ \E p \in RacingPushes : PushCommit(p)

SpecRacing == InitRacing /\ [][NextRacing]_vars

\* The event of the update that the processed item m wrote.
WrittenKey(m) == [path |-> m.path, content |-> m.content, message |-> NoText]

\* C36: a connection of device B that relayed the events of both writes
\* relayed them in the order in which the writes were applied to the vault.
C36_EventsInWriteOrder ==
    \A c \in Conns :
        (/\ conn[c].dev = DeviceB
         /\ Len(mutations) = MaxRacingPushes
         /\ Len(LiveKeys(c)) = MaxRacingPushes)
        => LiveKeys(c) = [i \in DOMAIN mutations |-> WrittenKey(mutations[i])]

\* C37: while an initial replace has cleaned the vault and not yet extracted
\* the archive, no GetAllFiles walk of a pull reads the vault and no item of a
\* push is applied to it.
C37_ReplaceIsAtomic ==
    [][initial.pc = "extract"
       => /\ pulled'.walking >= pulled.walking
          /\ mutations' = mutations]_vars

\* C38: every file or directory that the ExtractTarGz step of an initial
\* replace creates or overwrites lies under the vault root and outside the
\* git repository.
C38_ExtractionStaysInVault ==
    [][(initial.pc = "extract" /\ initial'.pc # "extract")
       => \A p \in DOMAIN fs' :
             (p \notin DOMAIN fs \/ fs'[p] # fs[p])
             => /\ IsPrefix(VaultRoot, p)
                /\ ~IsPrefix(Append(VaultRoot, GitName), p)]_vars

(***************************************************************************)
(* The plugin of one device: local edits, server events, pushes and pulls  *)
(***************************************************************************)
SpecPlugin == Init /\ [][NextPlugin]_vars

\* C32: a path leaves filesToUpdate only when it is in the payload of the push
\* whose response has arrived or when its delete is recorded, and a path
\* leaves filesToDelete only when it is in the payload of that push.
C32_PendingLeaveBySending ==
    [][\A x \in PluginPaths :
          /\ (x \in filesToUpdate /\ x \notin filesToUpdate')
             => \/ x \in filesToDelete'
                \/ sync["push"].pc = "sent" /\ x \in sync["push"].updates
          /\ (x \in filesToDelete /\ x \notin filesToDelete')
             => sync["push"].pc = "sent" /\ x \in sync["push"].deletes]_vars

\* C39: the step in which the vault operation of an event handler takes effect
\* leaves filesToUpdate and filesToDelete as they were, and an edit of the user
\* is recorded: the path created, modified or renamed to is in filesToUpdate,
\* the path deleted or renamed from is in filesToDelete.
C39_OnlyLocalEditsRecorded ==
    [][/\ \A h \in Handlers :
             (handlers[h].pc = "applying" /\ handlers'[h].pc = "done")
             => filesToUpdate' = filesToUpdate /\ filesToDelete' = filesToDelete
       /\ journal'.edits > journal.edits
          => LET e == journal'.edit IN
             /\ e.event \in {"create", "modify", "rename"} => e.path \in filesToUpdate'
             /\ e.event = "delete" => e.path \in filesToDelete'
             /\ e.event = "rename" => e.oldPath \in filesToDelete']_vars

\* The pull / push / initialSync calls that are in their body.
Running == {k \in SyncNames : sync[k].pc # "idle"}

\* C40: at most one of pull, push and initialSync is in its body; isSyncing is
\* set exactly while one is; and a call that setSyncing refuses sends no
\* request, starts no body and leaves isSyncing set.
C40_OneSyncAtATime ==
    [][/\ Cardinality(Running') <= 1
       /\ isSyncing' <=> Running' # {}
       /\ journal'.refused > journal.refused
          => /\ isSyncing /\ isSyncing'
             /\ sync' = sync
             /\ journal'.requests = journal.requests]_vars

\* A pull or an initial sync was called and refused while a push waits for its
\* response, and the push is still in its body.
C40_Witness ==
    /\ journal.refused > 0
    /\ journal.calls > 0
    /\ Running = {"push"}
    /\ sync["push"].pc = "sent"
    /\ isSyncing

====
